---- MODULE Spec2Model ----
(***************************************************************************)
(* Model of the view-orchestration layer of the GSuite desktop client      *)
(* (class MainWindow, src/main.js lines 361-920): the session lifecycle,   *)
(* the active-view state machine, the badge aggregator and the favicon     *)
(* proxy, as they are driven by IPC messages, window events and restarts.  *)
(***************************************************************************)
EXTENDS Integers, Sequences, FiniteSets, TLC

\* ------------------------------------------------------------------------
\* Bounds of the model (not program constants)
\* ------------------------------------------------------------------------
\* Largest unread count a message carries.
MaxCount == 2

\* Most favicon requests in flight at once.
MaxFetches == 2

\* Most content services enabled at once.
MaxEnabled == 2

\* ------------------------------------------------------------------------
\* Configuration (src/main.js 382-454)
\* ------------------------------------------------------------------------
\* JavaScript null / undefined: an unset id, an absent store key.
Null == "null"

\* An id that names no VIEW_CONFIG entry.
UnknownId == "unknown"

VIEW_CONFIG ==
    << [id |-> "menu",     isContent |-> FALSE, hasUrl |-> FALSE],
       [id |-> "aistudio", isContent |-> TRUE,  hasUrl |-> TRUE],
       [id |-> "gmail",    isContent |-> TRUE,  hasUrl |-> TRUE],
       [id |-> "calendar", isContent |-> TRUE,  hasUrl |-> TRUE],
       [id |-> "chat",     isContent |-> TRUE,  hasUrl |-> TRUE],
       [id |-> "drive",    isContent |-> TRUE,  hasUrl |-> TRUE],
       [id |-> "tasks",    isContent |-> TRUE,  hasUrl |-> TRUE] >>

MENU == "menu"

GMAIL == "gmail"

ConfigIdx == 1..Len(VIEW_CONFIG)

VALID_VIEW_IDS == { VIEW_CONFIG[i].id : i \in ConfigIdx }

ContentIds == { VIEW_CONFIG[i].id : i \in { j \in ConfigIdx : VIEW_CONFIG[j].isContent } }

\* Object.values(VIEW_CONFIG).find((c) => c.id === id)
ConfigOf(id) == VIEW_CONFIG[CHOOSE i \in ConfigIdx : VIEW_CONFIG[i].id = id]

\* config?.url is truthy
ConfigHasUrl(id) == id \in VALID_VIEW_IDS /\ ConfigOf(id).hasUrl

\* Default of store.get("services", {...}): every service enabled.
DefaultServices == [id \in ContentIds |-> TRUE]

\* Every id a message or the store can carry.
AnyId == VALID_VIEW_IDS \cup {UnknownId, Null}

\* The zoom factor of a fresh webContents, the limits and the step of the
\* zoom-changed handler, in tenths.
DefaultZoom == 10

ZoomMin == 5

ZoomMax == 30

ZoomStep == 1

\* The window of the calendar fallback detector, in ms.
DEBOUNCE_MS == 5000

\* The clock moves in steps of Tick ms, up to MaxTime.
Tick == 250

MaxTime == 12000

\* The wait of the debounced favicon check, in ms.
WAIT == 500

MaxCalls == 3

NoTimer == [pending |-> FALSE]

\* A first reading of the clock: like every reading of a real clock, it
\* is more than DEBOUNCE_MS after 0.
StartTime == DEBOUNCE_MS + Tick

\* ------------------------------------------------------------------------
\* State
\* ------------------------------------------------------------------------
VARIABLES
    running,          \* the main process is alive and create() has run
    storeLastTab,     \* persisted "lastTab" (Null: key absent)
    storeServices,    \* persisted "services" (NoServices: key absent)
    enabledServices,  \* this.enabledServices
    views,            \* this.views: the ids, in insertion order
    activeViewId,     \* this.activeViewId
    loadedViews,      \* this.loadedViews
    unreadCounts,     \* this.unreadCounts
    childViews,       \* win.contentView children, bottom to top
    focused,          \* id of the view whose webContents has input focus
    winFocused,       \* the window has OS focus
    loading,          \* ids whose loadURL/loadFile has not finished yet
    onceListeners,    \* ids with a pending once("did-finish-load") listener
    fetches,          \* favicon requests in flight, in issue order
    badgeCount,       \* last value given to app.setBadgeCount
    uiActiveTab,      \* tabId of the last set-active-tab sent to the menu
    uiLoading,        \* ids whose last set-loading-state sent to the menu said true
    uiBadges,         \* map of the last update-menu-badges sent to the menu
    uiIcons,          \* per source, dataUrl of the last update-menu-icon
    out,              \* what the last handler emitted, in order
    lastOp,           \* the last handler that ran, with its input
    lastSwitch,       \* target of the last switch that passed the guard
    startup,          \* how create() ended: "none", "complete", "aborted"
    ipcQueue,         \* messages of the menu page on their way to ipcMain
    subs,             \* ipcRenderer listeners of the menu page, in order
    handles,          \* what each electronAPI.on call returned, in call order
    invoked,          \* the listeners the last delivery to the menu page ran
    unsubscribed,     \* ids of the subscriptions whose unsubscribe has run
    shown,            \* OS notifications on display
    activeNotifications, \* notification handles the orchestrator retains
    zoomFactor,       \* per content view, the zoom factor of its webContents, in tenths
    zoomLevels,       \* this.zoomLevels, in tenths
    storeZoomLevels,  \* persisted "zoomLevels", in tenths
    pageSource,       \* per page that ran DOMContentLoaded, its sourceId
    docTitle,         \* per page, its title element and the count in its text
    docIcon,          \* per page, href of its last link[rel*='icon'] (Null: none)
    lastFaviconUrl,   \* per page, let lastFaviconUrl of its preload
    lastBadgeCount,   \* per page, let lastBadgeCount of its preload
    observers,        \* per page, the observers its preload installed
    checkPending,     \* pages whose debounced favicon check is scheduled
    pageSent,         \* per page, the messages of its last send on each channel
    now,  \* the clock the pages read with Date.now(), in ms
    lastNotificationTime,  \* per calendar page, let lastNotificationTime of its detector
    lastEmitted,  \* per calendar page, when its detector last sent a notification
    registrations, \* per calendar page, its service worker registrations
    timeout,  \* let timeout of a debounced function: the timer it holds
    calls,  \* the calls of the debounced function, with their times
    runs  \* the runs of the function it wraps, with their times

vars == << running, storeLastTab, storeServices, enabledServices, views,
           activeViewId, loadedViews, unreadCounts, childViews, focused,
           winFocused, loading, onceListeners, fetches, badgeCount,
           uiActiveTab, uiLoading, uiBadges, uiIcons, out, lastOp, lastSwitch,
           startup, ipcQueue, subs, handles, invoked, unsubscribed,
           shown, activeNotifications, zoomFactor, zoomLevels,
           storeZoomLevels, pageSource, docTitle, docIcon, lastFaviconUrl,
           lastBadgeCount, observers, checkPending, pageSent,
           now, lastNotificationTime, lastEmitted, registrations,
           timeout, calls, runs >>

storeVars == << storeLastTab, storeServices >>

viewVars == << activeViewId, loadedViews, childViews, focused, loading,
               onceListeners, uiActiveTab, uiLoading, lastSwitch >>

badgeVars == << unreadCounts, badgeCount, uiBadges >>

iconVars == << fetches, uiIcons >>

bridgeVars == << ipcQueue, subs, handles, invoked, unsubscribed >>

notifyVars == << shown, activeNotifications >>

zoomVars == << zoomFactor, zoomLevels, storeZoomLevels >>

pageVars == << pageSource, docTitle, docIcon, lastFaviconUrl, lastBadgeCount,
               observers, checkPending, pageSent >>

calendarVars == << now, lastNotificationTime, lastEmitted, registrations >>

debounceVars == << timeout, calls, runs >>

rendererVars == << pageVars, calendarVars, debounceVars >>

extVars == << startup, bridgeVars, notifyVars, zoomVars, rendererVars >>

\* ------------------------------------------------------------------------
\* Helpers
\* ------------------------------------------------------------------------
SeqToSet(s) == { s[i] : i \in 1..Len(s) }

RECURSIVE SeqFilter(_, _)
SeqFilter(s, keep) ==
    IF s = << >> THEN << >>
    ELSE IF Head(s) \in keep THEN << Head(s) >> \o SeqFilter(Tail(s), keep)
    ELSE SeqFilter(Tail(s), keep)

\* this.enabledServices[id] is truthy
IsEnabled(es, id) == id \in DOMAIN es /\ es[id]

\* The content ids whose enabledServices entry is truthy
EnabledIds(es) == { id \in ContentIds : IsEnabled(es, id) }

\* _getSafeView(id): the view, or undefined (Null)
getSafeView(vs, id) ==
    IF id \notin VALID_VIEW_IDS THEN Null
    ELSE IF id \in SeqToSet(vs) THEN id ELSE Null

\* this.views[id] without the allow-list check
viewOf(vs, id) == IF id \in SeqToSet(vs) THEN id ELSE Null

\* win.contentView.addChildView(view): (re)attach on top
addChildView(cv, id) == SeqFilter(cv, SeqToSet(cv) \ {id}) \o << id >>

\* _sendToMenu(channel, data): sent only when the menu view exists
sendToMenu(vs, msg) == IF MENU \in SeqToSet(vs) THEN << msg >> ELSE << >>

\* A reduce that keeps one value instead of accumulating.
SumCountsOne(uc) ==
    IF DOMAIN uc = {} THEN 0 ELSE uc[CHOOSE x \in DOMAIN uc : TRUE]

\* Object.values(this.unreadCounts).reduce((a, b) => a + b, 0)
RECURSIVE SumCounts(_)
SumCounts(uc) ==
    IF DOMAIN uc = {} THEN 0
    ELSE LET k == CHOOSE x \in DOMAIN uc : TRUE
         IN uc[k] + SumCounts([y \in DOMAIN uc \ {k} |-> uc[y]])

\* ------------------------------------------------------------------------
\* Startup: constructor + create()
\* ------------------------------------------------------------------------
\* The "services" key is absent from the store.
NoServices == << >>

\* store.get("services", default)
LoadServices(ss) == IF DOMAIN ss = {} THEN DefaultServices ELSE ss

\* Nothing was handed to the OS badge / sent on update-menu-badges yet.
NoBadge == [set |-> FALSE]

NoBadges == [sent |-> FALSE]

\* _createViews: one view per VIEW_CONFIG entry, disabled content skipped
RECURSIVE createViewsFrom(_, _)
createViewsFrom(i, es) ==
    IF i > Len(VIEW_CONFIG) THEN << >>
    ELSE LET config == VIEW_CONFIG[i]
         IN IF config.isContent /\ ~IsEnabled(es, config.id)
            THEN createViewsFrom(i + 1, es)
            ELSE << config.id >> \o createViewsFrom(i + 1, es)

\* A _createViews without the skip of disabled services.
createViewsAll(es) == [i \in ConfigIdx |-> VIEW_CONFIG[i].id]

createViews(es) == createViewsFrom(1, es)

\* Object.keys(this.views).find((id) => id !== "menu") || null
firstAvailable(vs) ==
    LET rest == SeqFilter(vs, SeqToSet(vs) \ {MENU})
    IN IF rest = << >> THEN Null ELSE Head(rest)

\* A startup that ignores the persisted tab.
initialTabFirst(lt, vs) == firstAvailable(vs)

\* _loadInitialContent: the initial tab
initialTab(lt, vs) ==
    LET lastTabId == IF lt = Null THEN GMAIL ELSE lt
    IN IF getSafeView(vs, lastTabId) = Null THEN firstAvailable(vs)
       ELSE lastTabId

Init ==
    /\ running = FALSE
    /\ storeLastTab \in AnyId
    /\ storeServices \in { ss \in {NoServices} \cup [ContentIds -> BOOLEAN] :
                             Cardinality(EnabledIds(LoadServices(ss))) <= MaxEnabled }
    /\ enabledServices = << >>
    /\ views = << >>
    /\ activeViewId = Null
    /\ loadedViews = {}
    /\ unreadCounts = << >>
    /\ childViews = << >>
    /\ focused = Null
    /\ winFocused = FALSE
    /\ loading = {}
    /\ onceListeners = {}
    /\ fetches = << >>
    /\ badgeCount = NoBadge
    /\ uiActiveTab = Null
    /\ uiLoading = {}
    /\ uiBadges = NoBadges
    /\ uiIcons = << >>
    /\ out = << >>
    /\ lastOp = [op |-> "none"]
    /\ lastSwitch = Null
    /\ startup = "none"
    /\ ipcQueue = << >>
    /\ subs = << >>
    /\ handles = << >>
    /\ invoked = << >>
    /\ unsubscribed = {}
    /\ shown = {}
    /\ activeNotifications = {}
    /\ zoomFactor = << >>
    /\ zoomLevels = << >>
    /\ storeZoomLevels = << >>
    /\ pageSource = << >>
    /\ docTitle = << >>
    /\ docIcon = << >>
    /\ lastFaviconUrl = << >>
    /\ lastBadgeCount = << >>
    /\ observers = << >>
    /\ checkPending = {}
    /\ pageSent = << >>
    /\ timeout = NoTimer
    /\ calls = << >>
    /\ runs = << >>
    /\ now = StartTime
    /\ lastNotificationTime = << >>
    /\ lastEmitted = << >>
    /\ registrations = << >>

Create ==
    /\ ~running
    /\ running' = TRUE
    /\ LET es == LoadServices(storeServices)
           vs == createViews(es)
           tab == initialTab(storeLastTab, vs)
           target == IF tab = Null THEN Null ELSE getSafeView(vs, tab)
       IN /\ enabledServices' = es
          /\ views' = vs
          /\ unreadCounts' = [id \in SeqToSet(vs) \cap ContentIds |-> 0]
          /\ zoomFactor' = [id \in SeqToSet(vs) \cap ContentIds |-> DefaultZoom]
          /\ loadedViews' = IF target # Null /\ ConfigHasUrl(tab) THEN {tab} ELSE {}
          /\ loading' = {MENU} \cup
                        (IF target # Null /\ ConfigHasUrl(tab) THEN {tab} ELSE {})
          /\ activeViewId' = IF target # Null THEN tab ELSE Null
          /\ childViews' = IF target # Null THEN addChildView(vs, target) ELSE vs
    /\ focused' = Null
    /\ winFocused' = TRUE
    /\ onceListeners' = {}
    /\ fetches' = << >>
    /\ badgeCount' = NoBadge
    /\ uiActiveTab' = Null
    /\ uiLoading' = {}
    /\ uiBadges' = NoBadges
    /\ uiIcons' = << >>
    /\ out' = << >>
    /\ lastOp' = [op |-> "create", after |-> lastOp]
    /\ startup' = "complete"
    /\ zoomLevels' = storeZoomLevels
    /\ UNCHANGED << storeVars, lastSwitch, bridgeVars, notifyVars,
                    storeZoomLevels, rendererVars >>

\* ------------------------------------------------------------------------
\* Active view state machine
\* ------------------------------------------------------------------------
\* Messages to the menu view and effects on views, as entries of out.
SetLoadingState(id, on) == [channel |-> "set-loading-state", serviceId |-> id, loading |-> on]

SetActiveTabGmail(id) == [channel |-> "set-active-tab", tabId |-> GMAIL]

SetActiveTab(id) == [channel |-> "set-active-tab", tabId |-> id]

Fx(kind, id) == [fx |-> kind, view |-> id]

\* A lazy load that does not look at the loaded set.
switchLoadPartAlways(vs, lv, tabId) ==
    sendToMenu(vs, SetLoadingState(tabId, TRUE))
    \o (IF ConfigHasUrl(tabId) THEN << Fx("loadURL", tabId) >> ELSE << >>)

\* _switchToTab(tabId), lines 761-788: loading indicator and lazy load
switchLoadPart(vs, lv, tabId) ==
    sendToMenu(vs, SetLoadingState(tabId, TRUE))
    \o (IF tabId \notin lv
        THEN (IF ConfigHasUrl(tabId) THEN << Fx("loadURL", tabId) >> ELSE << >>)
        ELSE sendToMenu(vs, SetLoadingState(tabId, FALSE)))

\* A switch that blurs the previous view after focusing the target.
switchFocusPartLate(vs, cur, tabId) ==
    << Fx("addChildView", tabId), Fx("focus", tabId) >>
    \o (IF cur # Null /\ getSafeView(vs, cur) # Null
        THEN << Fx("blur", cur) >> ELSE << >>)
    \o sendToMenu(vs, SetActiveTab(tabId))

\* _switchToTab(tabId), lines 790-801: blur, raise, focus, notify
switchFocusPart(vs, cur, tabId) ==
    (IF cur # Null /\ getSafeView(vs, cur) # Null
     THEN << Fx("blur", cur) >> ELSE << >>)
    \o << Fx("addChildView", tabId), Fx("focus", tabId) >>
    \o sendToMenu(vs, SetActiveTab(tabId))

\* _switchToTab(tabId); also ipcMain.on(SWITCH_TAB) and the menu shortcuts
switchToTab(tabId) ==
    LET targetView == getSafeView(views, tabId)
    IN IF targetView = Null
       THEN /\ out' = << >>
            /\ UNCHANGED << viewVars, storeVars >>
       ELSE /\ out' = switchLoadPart(views, loadedViews, tabId)
                      \o switchFocusPart(views, activeViewId, tabId)
            /\ IF tabId \notin loadedViews /\ ConfigHasUrl(tabId)
               THEN /\ loadedViews' = loadedViews \cup {tabId}
                    /\ loading' = loading \cup {tabId}
                    /\ onceListeners' = onceListeners \cup {tabId}
               ELSE UNCHANGED << loadedViews, loading, onceListeners >>
            /\ uiLoading' = IF MENU \notin SeqToSet(views) THEN uiLoading
                            ELSE IF tabId \notin loadedViews
                            THEN uiLoading \cup {tabId}
                            ELSE uiLoading \ {tabId}
            /\ storeLastTab' = tabId
            /\ activeViewId' = tabId
            /\ childViews' = addChildView(childViews, targetView)
            /\ focused' = tabId
            /\ uiActiveTab' = IF MENU \in SeqToSet(views) THEN tabId ELSE uiActiveTab
            /\ lastSwitch' = tabId
            /\ UNCHANGED storeServices

SwitchTab(tabId) ==
    /\ running
    /\ switchToTab(tabId)
    /\ lastOp' = [op |-> "switch", tabId |-> tabId]
    /\ UNCHANGED extVars
    /\ UNCHANGED << running, enabledServices, views, winFocused,
                    badgeVars, iconVars >>

\* The message of the menu's did-finish-load listener (lines 735-744)
\* The message with the constructor's default tab in place of the one given.
GetEnabledServicesDefault(activeId, es) ==
    [channel |-> "get-enabled-services", activeId |-> GMAIL, services |-> es]

GetEnabledServices(activeId, es) ==
    [channel |-> "get-enabled-services", activeId |-> activeId, services |-> es]

\* did-finish-load of the page of view id: the one-shot listener of
\* _switchToTab, when pending, sends loading false; the menu page gets the
\* enabled services; a content view gets its saved zoom factor back.
DidFinishLoad(id) ==
    /\ running
    /\ id \in loading
    /\ loading' = loading \ {id}
    /\ onceListeners' = onceListeners \ {id}
    /\ out' = (IF id \in onceListeners
               THEN sendToMenu(views, SetLoadingState(id, FALSE)) ELSE << >>)
              \o (IF id = MENU
                  THEN << GetEnabledServices(activeViewId, enabledServices) >>
                  ELSE << >>)
    /\ uiLoading' = IF id \in onceListeners /\ MENU \in SeqToSet(views)
                    THEN uiLoading \ {id} ELSE uiLoading
    /\ zoomFactor' = IF id \in DOMAIN zoomFactor /\ id \in DOMAIN zoomLevels
                     THEN [zoomFactor EXCEPT ![id] = zoomLevels[id]]
                     ELSE zoomFactor
    /\ lastOp' = [op |-> "loaded", id |-> id]
    /\ UNCHANGED << startup, bridgeVars, notifyVars, zoomLevels,
                    storeZoomLevels, rendererVars >>
    /\ UNCHANGED << running, storeVars, enabledServices, views, activeViewId,
                    loadedViews, childViews, focused, winFocused, uiActiveTab,
                    lastSwitch, badgeVars, iconVars >>

\* A shortcut list over every content entry, enabled or not.
serviceShortcutsAll(es) == SeqFilter([i \in ConfigIdx |-> VIEW_CONFIG[i].id], ContentIds)

\* menu.js 88-106: the enabled content entries in VIEW_CONFIG order (the
\* sort moves only "protonmail", which VIEW_CONFIG does not have)
serviceShortcuts(es) ==
    SeqFilter([i \in ConfigIdx |-> VIEW_CONFIG[i].id],
              { id \in ContentIds : IsEnabled(es, id) })

\* accelerator CmdOrCtrl+k of the View menu
Shortcut(k) ==
    /\ running
    /\ k \in 1..Len(serviceShortcuts(enabledServices))
    /\ switchToTab(serviceShortcuts(enabledServices)[k])
    /\ lastOp' = [op |-> "shortcut", k |-> k,
                  tabId |-> serviceShortcuts(enabledServices)[k]]
    /\ UNCHANGED extVars
    /\ UNCHANGED << running, enabledServices, views, winFocused,
                    badgeVars, iconVars >>

\* win.on("blur"): the active view's page is told to blur
WinBlur ==
    /\ running
    /\ winFocused
    /\ winFocused' = FALSE
    /\ LET activeView == viewOf(views, activeViewId)
       IN IF activeView = Null
          THEN /\ out' = << >>
               /\ UNCHANGED focused
          ELSE /\ out' = << Fx("blur", activeView) >>
               /\ focused' = IF focused = activeView THEN Null ELSE focused
    /\ lastOp' = [op |-> "blur"]
    /\ UNCHANGED extVars
    /\ UNCHANGED << running, storeVars, enabledServices, views, activeViewId,
                    loadedViews, childViews, loading, onceListeners,
                    uiActiveTab, uiLoading, lastSwitch, badgeVars, iconVars >>

\* win.on("focus"): the active view gets input focus back
WinFocus ==
    /\ running
    /\ ~winFocused
    /\ winFocused' = TRUE
    /\ LET activeView == viewOf(views, activeViewId)
       IN IF activeView = Null
          THEN /\ out' = << >>
               /\ UNCHANGED focused
          ELSE /\ out' = << Fx("focus", activeView) >>
               /\ focused' = activeView
    /\ lastOp' = [op |-> "focus"]
    /\ UNCHANGED extVars
    /\ UNCHANGED << running, storeVars, enabledServices, views, activeViewId,
                    loadedViews, childViews, loading, onceListeners,
                    uiActiveTab, uiLoading, lastSwitch, badgeVars, iconVars >>

\* ------------------------------------------------------------------------
\* Process end: the in-memory state is gone, the store stays
\* ------------------------------------------------------------------------
ProcessGone ==
    /\ running' = FALSE
    /\ enabledServices' = << >>
    /\ views' = << >>
    /\ activeViewId' = Null
    /\ loadedViews' = {}
    /\ unreadCounts' = << >>
    /\ childViews' = << >>
    /\ focused' = Null
    /\ winFocused' = FALSE
    /\ loading' = {}
    /\ onceListeners' = {}
    /\ fetches' = << >>
    /\ badgeCount' = NoBadge
    /\ uiActiveTab' = Null
    /\ uiLoading' = {}
    /\ uiBadges' = NoBadges
    /\ uiIcons' = << >>
    /\ out' = << >>
    /\ startup' = "none"
    /\ ipcQueue' = << >>
    /\ subs' = << >>
    /\ handles' = << >>
    /\ invoked' = << >>
    /\ unsubscribed' = {}
    /\ shown' = {}
    /\ activeNotifications' = {}
    /\ zoomFactor' = << >>
    /\ zoomLevels' = << >>
    /\ UNCHANGED storeZoomLevels
    /\ pageSource' = << >>
    /\ docTitle' = << >>
    /\ docIcon' = << >>
    /\ lastFaviconUrl' = << >>
    /\ lastBadgeCount' = << >>
    /\ observers' = << >>
    /\ checkPending' = {}
    /\ pageSent' = << >>
    /\ timeout' = NoTimer
    /\ calls' = << >>
    /\ runs' = << >>
    /\ UNCHANGED now
    /\ lastNotificationTime' = << >>
    /\ lastEmitted' = << >>
    /\ registrations' = << >>

\* The user quits the application.
Quit ==
    /\ running
    /\ ProcessGone
    /\ lastOp' = [op |-> "quit"]
    /\ UNCHANGED << storeVars, lastSwitch >>

\* A flip that also switches every other service off.
toggledServicesOnly(es, id) ==
    [k \in DOMAIN es |-> IF k = id THEN ~es[k] ELSE FALSE]

\* this.enabledServices[config.id] = !this.enabledServices[config.id]
toggledServices(es, id) == [es EXCEPT ![id] = ~es[id]]

\* Click on a service checkbox of the visibility menu (lines 883-889):
\* flip, persist, relaunch and exit.
ToggleService(id) ==
    /\ running
    /\ id \in ContentIds
    /\ Cardinality(EnabledIds(toggledServices(enabledServices, id))) <= MaxEnabled
    /\ storeServices' = toggledServices(enabledServices, id)
    /\ ProcessGone
    /\ lastOp' = [op |-> "toggle", id |-> id]
    /\ UNCHANGED << storeLastTab, lastSwitch >>

\* ------------------------------------------------------------------------
\* Badge aggregator
\* ------------------------------------------------------------------------
\* Payloads of update-badge: any source, a count or none.
BadgePayloads ==
    [source : AnyId, count : -1..MaxCount] \cup [source : AnyId]

hasOwnAny(uc, source) == TRUE

\* Object.prototype.hasOwnProperty.call(this.unreadCounts, source)
hasOwn(uc, source) == source \in DOMAIN uc

\* this.unreadCounts[source] = newCount
assignCount(uc, source, newCount) ==
    [k \in DOMAIN uc \cup {source} |-> IF k = source THEN newCount ELSE uc[k]]

\* An _updateUnreadCount that adds the count to the stored one.
updateUnreadCountAdd(uc, source, msg) ==
    IF source \notin VALID_VIEW_IDS THEN uc
    ELSE LET newCount == IF "count" \in DOMAIN msg THEN msg.count ELSE 0
         IN IF hasOwn(uc, source)
            THEN assignCount(uc, source, uc[source] + newCount)
            ELSE uc

\* _updateUnreadCount(source, count)
updateUnreadCount(uc, source, msg) ==
    IF source \notin VALID_VIEW_IDS THEN uc
    ELSE LET newCount == IF "count" \in DOMAIN msg THEN msg.count ELSE 0
         IN IF hasOwn(uc, source) THEN assignCount(uc, source, newCount)
            ELSE uc

SetBadgeCount(total) == [os |-> "setBadgeCount", total |-> total]

UpdateMenuBadges(uc) == [channel |-> "update-menu-badges", counts |-> uc]

\* the listener body of ipcMain.on(UPDATE_BADGE)
onUpdateBadge(msg) ==
    LET uc == updateUnreadCount(unreadCounts, msg.source, msg)
        total == SumCounts(uc)
    IN /\ unreadCounts' = uc
       /\ badgeCount' = [set |-> TRUE, total |-> total]
       /\ out' = << SetBadgeCount(total) >> \o sendToMenu(views, UpdateMenuBadges(uc))
       /\ uiBadges' = IF MENU \in SeqToSet(views)
                      THEN [sent |-> TRUE, counts |-> uc] ELSE uiBadges

\* ipcMain.on(UPDATE_BADGE)
UpdateBadge(msg) ==
    /\ running
    /\ onUpdateBadge(msg)
    /\ lastOp' = [op |-> "badge", msg |-> msg]
    /\ UNCHANGED extVars
    /\ UNCHANGED << running, storeVars, enabledServices, views, winFocused,
                    viewVars, iconVars >>

\* ------------------------------------------------------------------------
\* Favicon proxy
\* ------------------------------------------------------------------------
\* Icon references: [scheme, body]. "data" is a self-contained data: URL,
\* "https" a remote URL, "bad" a string net.request rejects, "none" an
\* absent or empty reference.
DataUrls == { [scheme |-> "data", body |-> "A"] }

RemoteUrls == { [scheme |-> "https", body |-> "a"], [scheme |-> "https", body |-> "b"] }

BadUrl == [scheme |-> "bad", body |-> ""]

NoUrl == [scheme |-> "none", body |-> ""]

FaviconUrls == DataUrls \cup RemoteUrls \cup {BadUrl, NoUrl}

\* Sources of update-favicon messages.
FaviconSources == { "gmail", "chat", UnknownId }

\* `data:${content-type};base64,${body}` of the response to a request of url
encodeResponse(url) == [scheme |-> "data", body |-> "enc-" \o url.body]

UpdateMenuIconReencoded(source, dataUrl) ==
    [channel |-> "update-menu-icon", source |-> source,
     dataUrl |-> [scheme |-> "data", body |-> "enc-" \o dataUrl.body]]

UpdateMenuIcon(source, dataUrl) ==
    [channel |-> "update-menu-icon", source |-> source, dataUrl |-> dataUrl]

\* The menu's icon of a source after update-menu-icon
setIcon(icons, source, dataUrl) ==
    [s \in DOMAIN icons \cup {source} |->
        IF s = source THEN dataUrl ELSE icons[s]]

\* The requests in flight once a further update-favicon of the source has
\* been received. The request objects themselves are untouched: superseded
\* is kept for the properties only, no code reads it.
supersede(fs, source) ==
    [i \in 1..Len(fs) |->
        IF fs[i].source = source THEN [fs[i] EXCEPT !.superseded = TRUE]
        ELSE fs[i]]

\* the listener body of ipcMain.on(UPDATE_FAVICON)
onUpdateFavicon(source, faviconUrl) ==
       IF faviconUrl = NoUrl
       THEN /\ out' = << >>
            /\ UNCHANGED iconVars
       ELSE IF faviconUrl.scheme = "data"
       THEN /\ out' = sendToMenu(views, UpdateMenuIcon(source, faviconUrl))
            /\ uiIcons' = IF MENU \in SeqToSet(views)
                          THEN setIcon(uiIcons, source, faviconUrl) ELSE uiIcons
            /\ fetches' = supersede(fetches, source)
       ELSE IF faviconUrl = BadUrl
       THEN /\ out' = << >>
            /\ fetches' = supersede(fetches, source)
            /\ UNCHANGED uiIcons
       ELSE /\ Len(fetches) < MaxFetches
            /\ fetches' = Append(supersede(fetches, source),
                                 [source |-> source, url |-> faviconUrl,
                                  superseded |-> FALSE])
            /\ out' = << [net |-> "request", source |-> source, url |-> faviconUrl] >>
            /\ UNCHANGED uiIcons

\* ipcMain.on(UPDATE_FAVICON)
UpdateFavicon(source, faviconUrl) ==
    /\ running
    /\ onUpdateFavicon(source, faviconUrl)
    /\ lastOp' = [op |-> "favicon", source |-> source, url |-> faviconUrl]
    /\ UNCHANGED extVars
    /\ UNCHANGED << running, storeVars, enabledServices, views, winFocused,
                    viewVars, badgeVars >>

RemoveAt(s, i) == SubSeq(s, 1, i - 1) \o SubSeq(s, i + 1, Len(s))

responseOkAny(status) == TRUE

\* response.statusCode !== 200 returns early
responseOk(status) == status = 200

\* The response of request i ends: status 200 is re-encoded and forwarded,
\* any other status is dropped.
FetchResponse(i, status) ==
    /\ running
    /\ i \in 1..Len(fetches)
    /\ LET req == fetches[i]
           dataUrl == encodeResponse(req.url)
       IN /\ fetches' = RemoveAt(fetches, i)
          /\ IF ~responseOk(status)
             THEN /\ out' = << >>
                  /\ UNCHANGED uiIcons
             ELSE /\ out' = sendToMenu(views, UpdateMenuIcon(req.source, dataUrl))
                  /\ uiIcons' = IF MENU \in SeqToSet(views)
                                THEN setIcon(uiIcons, req.source, dataUrl)
                                ELSE uiIcons
          /\ lastOp' = [op |-> "response", source |-> req.source,
                        url |-> req.url, status |-> status,
                        superseded |-> req.superseded]
    /\ UNCHANGED extVars
    /\ UNCHANGED << running, storeVars, enabledServices, views, winFocused,
                    viewVars, badgeVars >>

\* request.on("error"): logged, nothing else
FetchError(i) ==
    /\ running
    /\ i \in 1..Len(fetches)
    /\ fetches' = RemoveAt(fetches, i)
    /\ out' = << >>
    /\ lastOp' = [op |-> "error", source |-> fetches[i].source, url |-> fetches[i].url]
    /\ UNCHANGED extVars
    /\ UNCHANGED << running, storeVars, enabledServices, views, winFocused,
                    viewVars, badgeVars, uiIcons >>

\* ------------------------------------------------------------------------
\* Startup with a failing view
\* ------------------------------------------------------------------------
\* create() when the try block of _createViews throws for entry failed;
\* late: the throw comes after this.unreadCounts[config.id] = 0 (line 602),
\* otherwise before it. The catch logs and the loop goes on. Without a menu
\* view, _layoutViews throws on this.views.menu.setBounds and create() ends
\* there: no IPC listeners, no initial content.
CreateFailing(failed, late) ==
    /\ ~running
    /\ running' = TRUE
    /\ LET es == LoadServices(storeServices)
           all == createViews(es)
           vs == SeqFilter(all, SeqToSet(all) \ {failed})
           counted == (SeqToSet(vs) \cap ContentIds) \cup
                      (IF late THEN {failed} \cap ContentIds ELSE {})
           tab == initialTab(storeLastTab, vs)
           target == IF tab = Null THEN Null ELSE getSafeView(vs, tab)
       IN /\ failed \in SeqToSet(all)
          /\ enabledServices' = es
          /\ views' = vs
          /\ unreadCounts' = [id \in counted |-> 0]
          /\ zoomFactor' = [id \in SeqToSet(vs) \cap ContentIds |-> DefaultZoom]
          /\ IF MENU \notin SeqToSet(vs)
             THEN /\ startup' = "aborted"
                  /\ loadedViews' = {}
                  /\ loading' = {}
                  /\ activeViewId' = Null
                  /\ childViews' = vs
             ELSE /\ startup' = "complete"
                  /\ loadedViews' = IF target # Null /\ ConfigHasUrl(tab)
                                    THEN {tab} ELSE {}
                  /\ loading' = {MENU} \cup
                                (IF target # Null /\ ConfigHasUrl(tab)
                                 THEN {tab} ELSE {})
                  /\ activeViewId' = IF target # Null THEN tab ELSE Null
                  /\ childViews' = IF target # Null
                                   THEN addChildView(vs, target) ELSE vs
    /\ focused' = Null
    /\ winFocused' = TRUE
    /\ onceListeners' = {}
    /\ fetches' = << >>
    /\ badgeCount' = NoBadge
    /\ uiActiveTab' = Null
    /\ uiLoading' = {}
    /\ uiBadges' = NoBadges
    /\ uiIcons' = << >>
    /\ out' = << [console |-> "error", failed |-> failed] >>
    /\ lastOp' = [op |-> "create-failing", failed |-> failed, late |-> late]
    /\ zoomLevels' = storeZoomLevels
    /\ UNCHANGED << storeVars, lastSwitch, bridgeVars, notifyVars,
                    storeZoomLevels, rendererVars >>

\* ------------------------------------------------------------------------
\* New windows
\* ------------------------------------------------------------------------
\* URLs a page may try to open in a new window.
OpenUrls == { "https://example.org/a", "mailto:a@example.org" }

windowOpenActionAllow(url) == "allow"

\* return { action: "deny" }
windowOpenAction(url) == "deny"

\* setWindowOpenHandler(({ url }) => ...) of a content view whose page runs:
\* the URL goes to shell.openExternal; Electron opens a window only for
\* the action "allow".
WindowOpen(id, url) ==
    /\ running
    /\ id \in SeqToSet(views) \cap ContentIds
    /\ id \in loadedViews
    /\ out' = << [os |-> "openExternal", url |-> url] >>
              \o (IF windowOpenAction(url) = "allow"
                  THEN << Fx("newWindow", id) >> ELSE << >>)
    /\ lastOp' = [op |-> "window-open", id |-> id, url |-> url]
    /\ UNCHANGED extVars
    /\ UNCHANGED << running, storeVars, enabledServices, views, winFocused,
                    viewVars, badgeVars, iconVars >>

\* ------------------------------------------------------------------------
\* Shell UI bridge (preload of the menu page)
\* ------------------------------------------------------------------------
MaxQueue == 2

MaxSubs == 3

\* IPC_API_CONTRACT.sendChannels
SendChannels == { "switch-tab", "show-context-menu" }

\* IPC_API_CONTRACT.receiveChannels
ReceiveChannels == { "set-active-tab", "update-menu-badges",
                     "update-menu-icon", "get-enabled-services" }

\* Channels the page may try to send on: the allowed ones, one that
\* ipcMain listens to for the content bridges, one nobody listens to.
UiSendInputs == SendChannels \cup { "update-badge", "evil-channel" }

UiSendData == { "gmail", "chat", MENU }

\* Channels the page may try to listen on.
UiOnInputs == { "set-active-tab", "update-menu-icon", "set-loading-state" }

\* Callbacks the page passes to electronAPI.on
Funcs == { "f", "g" }

\* Channels on which the orchestrator sends to the menu page.
MenuChannels == { "set-active-tab", "update-menu-badges", "update-menu-icon",
                  "get-enabled-services", "set-loading-state" }

sendAllowedAny(channel) == TRUE

\* IPC_API_CONTRACT.sendChannels.includes(channel)
sendAllowed(channel) == channel \in SendChannels

onAllowedAny(channel) == TRUE

\* IPC_API_CONTRACT.receiveChannels.includes(channel)
onAllowed(channel) == channel \in ReceiveChannels

\* electronAPI.send(channel, data)
UiSend(channel, data) ==
    /\ running
    /\ MENU \in SeqToSet(views)
    /\ IF sendAllowed(channel)
       THEN /\ Len(ipcQueue) < MaxQueue
            /\ ipcQueue' = Append(ipcQueue, [channel |-> channel, data |-> data])
            /\ out' = << >>
       ELSE /\ ipcQueue' = ipcQueue
            /\ out' = << [console |-> "warn", channel |-> channel] >>
    /\ lastOp' = [op |-> "send", channel |-> channel, data |-> data]
    /\ UNCHANGED << running, storeVars, enabledServices, views, winFocused,
                    viewVars, badgeVars, iconVars, startup, subs, handles,
                    invoked, unsubscribed, notifyVars, zoomVars, rendererVars >>

\* ipcMain emits the oldest message of the menu page to its listener
IpcDeliver ==
    /\ running
    /\ ipcQueue # << >>
    /\ LET m == Head(ipcQueue)
       IN /\ ipcQueue' = Tail(ipcQueue)
          /\ lastOp' = [op |-> "ipc", channel |-> m.channel, data |-> m.data]
          /\ CASE m.channel = "switch-tab" ->
                    /\ switchToTab(m.data)
                    /\ UNCHANGED badgeVars
               [] m.channel = "update-badge" ->
                    \* { count, source } of a string: both undefined
                    /\ onUpdateBadge([source |-> UnknownId])
                    /\ UNCHANGED << storeVars, viewVars >>
               [] m.channel = "show-context-menu" ->
                    /\ out' = << [os |-> "menu.popup"] >>
                    /\ UNCHANGED << storeVars, viewVars, badgeVars >>
               [] OTHER ->
                    /\ out' = << >>
                    /\ UNCHANGED << storeVars, viewVars, badgeVars >>
    /\ UNCHANGED << running, enabledServices, views, winFocused, iconVars,
                    startup, subs, handles, invoked, unsubscribed, notifyVars, zoomVars, rendererVars >>

\* What electronAPI.on returns: the closure over (channel, subscription),
\* or the empty function.
RemoveHandle(channel, sub) == [kind |-> "remove", channel |-> channel, sub |-> sub]

\* channel only records which call returned it; the function closes over nothing
NoopHandle(channel) == [kind |-> "noop", channel |-> channel, sub |-> 0]

\* electronAPI.on(channel, func); sub identifies the wrapper this call makes
UiOn(channel, func) ==
    /\ running
    /\ MENU \in SeqToSet(views)
    /\ Len(handles) < MaxSubs
    /\ LET sub == Len(handles) + 1
       IN IF onAllowed(channel)
          THEN /\ subs' = Append(subs, [sub |-> sub, channel |-> channel, func |-> func])
               /\ handles' = Append(handles, RemoveHandle(channel, sub))
               /\ out' = << >>
          ELSE /\ subs' = subs
               /\ handles' = Append(handles, NoopHandle(channel))
               /\ out' = << [console |-> "warn", channel |-> channel] >>
    /\ lastOp' = [op |-> "on", channel |-> channel, func |-> func]
    /\ UNCHANGED << running, storeVars, enabledServices, views, winFocused,
                    viewVars, badgeVars, iconVars, startup, ipcQueue,
                    invoked, unsubscribed, notifyVars, zoomVars, rendererVars >>

\* ipcRenderer.removeAllListeners(channel)
removeAllListeners(ss, channel, sub) ==
    SeqFilter(ss, { s \in SeqToSet(ss) : s.channel # channel })

\* ipcRenderer.removeListener(channel, subscription)
removeListener(ss, channel, sub) ==
    SeqFilter(ss, { s \in SeqToSet(ss) : ~(s.channel = channel /\ s.sub = sub) })

\* the page calls the function that its i-th electronAPI.on call returned
UiUnsubscribe(i) ==
    /\ running
    /\ i \in 1..Len(handles)
    /\ LET h == handles[i]
       IN IF h.kind = "remove"
          THEN /\ subs' = removeListener(subs, h.channel, h.sub)
               /\ unsubscribed' = unsubscribed \cup { h.sub }
          ELSE UNCHANGED << subs, unsubscribed >>
    /\ out' = << >>
    /\ lastOp' = [op |-> "unsubscribe", handle |-> i]
    /\ UNCHANGED << running, storeVars, enabledServices, views, winFocused,
                    viewVars, badgeVars, iconVars, startup, ipcQueue,
                    handles, invoked, notifyVars, zoomVars, rendererVars >>

\* a message of the orchestrator arrives in the menu page: ipcRenderer
\* runs the listeners of that channel in registration order
MenuReceive(channel) ==
    /\ running
    /\ MENU \in SeqToSet(views)
    /\ invoked' = SeqFilter(subs, { s \in SeqToSet(subs) : s.channel = channel })
    /\ out' = << >>
    /\ lastOp' = [op |-> "receive", channel |-> channel]
    /\ UNCHANGED << running, storeVars, enabledServices, views, winFocused,
                    viewVars, badgeVars, iconVars, startup, ipcQueue,
                    subs, handles, unsubscribed, notifyVars, zoomVars, rendererVars >>

\* ------------------------------------------------------------------------
\* Notification relay
\* ------------------------------------------------------------------------
MaxNotes == 2

\* Payloads of gsuiteBridge.triggerNotification: {title, body, source}
NoteTitles == { "t1", "t2" }

NoteBodies == { "b1" }

\* What getSourceId of the content preload can return here.
NoteSources == { "gmail", "calendar" }

\* A Notification object on display.
NoteHandle(n, title, body) == [n |-> n, title |-> title, body |-> body]

\* gsuiteBridge.triggerNotification(title, body) sends show-notification.
\* listening: the build's _setupIpcHandlers registers a listener for the
\* channel (the one at lines 303-313) or none (lines 822-898);
\* supported: Notification.isSupported() on this platform.
ShowNotification(title, body, source, listening, supported) ==
    /\ running
    /\ Cardinality(shown) < MaxNotes
    /\ IF listening /\ supported
       THEN LET n == CHOOSE k \in 1..MaxNotes : \A h \in shown : h.n # k
            IN /\ shown' = shown \cup { NoteHandle(n, title, body) }
               /\ out' = << [os |-> "notification.show",
                             title |-> title, body |-> body] >>
       ELSE /\ shown' = shown
            /\ out' = << >>
    /\ lastOp' = [op |-> "notify", title |-> title, body |-> body,
                  source |-> source, listening |-> listening,
                  supported |-> supported]
    /\ UNCHANGED << running, storeVars, enabledServices, views, winFocused,
                    viewVars, badgeVars, iconVars, startup, bridgeVars,
                    activeNotifications, zoomVars, rendererVars >>

\* notification.on("click", () => this.win?.focus()): the window gets OS
\* focus, which runs win.on("focus") when it did not have it.
NotificationClick(h) ==
    /\ running
    /\ h \in shown
    /\ shown' = shown \ { h }
    /\ winFocused' = TRUE
    /\ LET activeView == viewOf(views, activeViewId)
       IN IF winFocused \/ activeView = Null
          THEN /\ out' = << >>
               /\ UNCHANGED focused
          ELSE /\ out' = << Fx("focus", activeView) >>
               /\ focused' = activeView
    /\ lastOp' = [op |-> "click", handle |-> h]
    /\ UNCHANGED << running, storeVars, enabledServices, views, activeViewId,
                    loadedViews, childViews, loading, onceListeners,
                    uiActiveTab, uiLoading, lastSwitch, badgeVars, iconVars, startup,
                    bridgeVars, activeNotifications, zoomVars, rendererVars >>

\* The notification leaves the screen (timeout, dismissal): the handler
\* registers no "close" listener.
NotificationClose(h) ==
    /\ running
    /\ h \in shown
    /\ shown' = shown \ { h }
    /\ out' = << >>
    /\ lastOp' = [op |-> "close", handle |-> h]
    /\ UNCHANGED << running, storeVars, enabledServices, views, winFocused,
                    viewVars, badgeVars, iconVars, startup, bridgeVars,
                    activeNotifications, zoomVars, rendererVars >>

\* ------------------------------------------------------------------------
\* Message payloads as they arrive on the channels
\* ------------------------------------------------------------------------
\* A payload is absent (no second argument, or null) or an object with
\* some of the fields the listener destructures.
Absent == [kind |-> "absent"]

Object(fields) == [kind |-> "object", fields |-> fields]

\* What a missing property reads as.
Undefined == "undefined"

\* A truthy value that is not a string.
NotAString == [scheme |-> "number", body |-> "5"]

RawBadgePayloads ==
    { Absent }
    \cup { Object(f) : f \in [source : { "gmail", "chat" }, count : 0..MaxCount] }
    \cup { Object(f) : f \in [source : { "gmail" }] }
    \cup { Object(f) : f \in [count : { 1 }] }
    \cup { Object(f) : f \in [other : { 1 }] }

RawFaviconPayloads ==
    { Absent }
    \cup { Object(f) : f \in [source : { "gmail", "chat" },
                              faviconUrl : DataUrls \cup { NotAString }] }
    \cup { Object(f) : f \in [source : { "gmail" }] }
    \cup { Object(f) : f \in [other : { 1 }] }

\* the parameter pattern { count, source } / { source, faviconUrl }: it
\* throws a TypeError on undefined and null
destructures(payload) == payload.kind = "object"

\* the value of property name of the payload object
prop(fields, name) ==
    IF name \in DOMAIN fields THEN fields[name] ELSE Undefined

\* the arguments the update-badge listener passes on
badgeArgs(fields) ==
    IF "count" \in DOMAIN fields
    THEN [source |-> prop(fields, "source"), count |-> fields.count]
    ELSE [source |-> prop(fields, "source")]

\* ipcMain.on(UPDATE_BADGE) called with a payload of any shape
IpcUpdateBadge(payload) ==
    /\ running
    /\ IF destructures(payload)
       THEN /\ onUpdateBadge(badgeArgs(IF payload.kind = "object"
                                       THEN payload.fields ELSE << >>))
            /\ lastOp' = [op |-> "ipc-badge", payload |-> payload, threw |-> FALSE]
       ELSE /\ out' = << >>
            /\ lastOp' = [op |-> "ipc-badge", payload |-> payload, threw |-> TRUE]
            /\ UNCHANGED badgeVars
    /\ UNCHANGED extVars
    /\ UNCHANGED << running, storeVars, enabledServices, views, winFocused,
                    viewVars, iconVars >>

\* ipcMain.on(UPDATE_FAVICON) called with a payload of any shape
IpcUpdateFavicon(payload) ==
    /\ running
    /\ LET fields == IF payload.kind = "object" THEN payload.fields ELSE << >>
           faviconUrl == IF "faviconUrl" \in DOMAIN fields
                         THEN fields.faviconUrl ELSE NoUrl
       IN IF ~destructures(payload)
          THEN /\ out' = << >>
               /\ lastOp' = [op |-> "ipc-favicon", payload |-> payload,
                             threw |-> TRUE]
               /\ UNCHANGED iconVars
          ELSE IF faviconUrl = NoUrl
          THEN \* if (!faviconUrl) return
               /\ out' = << >>
               /\ lastOp' = [op |-> "ipc-favicon", payload |-> payload,
                             threw |-> FALSE]
               /\ UNCHANGED iconVars
          ELSE IF faviconUrl = NotAString
          THEN \* faviconUrl.startsWith is not a function
               /\ out' = << >>
               /\ lastOp' = [op |-> "ipc-favicon", payload |-> payload,
                             threw |-> TRUE]
               /\ UNCHANGED iconVars
          ELSE /\ onUpdateFavicon(prop(fields, "source"), faviconUrl)
               /\ lastOp' = [op |-> "ipc-favicon", payload |-> payload,
                             threw |-> FALSE]
    /\ UNCHANGED extVars
    /\ UNCHANGED << running, storeVars, enabledServices, views, winFocused,
                    viewVars, badgeVars >>

\* ------------------------------------------------------------------------
\* Permission requests
\* ------------------------------------------------------------------------
\* A URL is the sequence of its parts: the scheme with "://", then the
\* host in one or more pieces, then the path. Text comparison of two URLs
\* is comparison of these sequences.
\* const googleDomains
googleDomains ==
    { << "https://", "mail.google.com" >>,
      << "https://", "calendar.google.com" >>,
      << "https://", "chat.google.com" >>,
      << "https://", "aistudio.google.com" >>,
      << "https://", "tasks.google.com" >> }

\* URLs a request can name.
RequestUrls ==
    { << "https://", "mail.google.com", "/mail/u/0/" >>,
      << "https://", "mail.google.com" >>,
      << "https://", "calendar.google.com", "/calendar/u/0/r" >>,
      << "https://", "drive.google.com", "/drive/u/0/my-drive" >>,
      << "http://", "mail.google.com", "/mail/u/0/" >>,
      << "https://", "evil.example", "/" >>,
      << "https://", "mail.google.com", ".evil.example", "/mail/u/0/" >>,
      << "https://", "tasks.google.com", ".evil.example" >> }

\* details.requestingUrl when the request carries none
NoRequestingUrl == << >>

\* String.prototype.startsWith
startsWith(url, domain) ==
    /\ Len(url) >= Len(domain)
    /\ SubSeq(url, 1, Len(domain)) = domain

\* new Set(["media"])
allowedPermissions == { "media" }

\* the handler given to session.setPermissionRequestHandler
permissionGranted(permission, url) ==
    IF permission = "notifications"
    THEN \E domain \in googleDomains : startsWith(url, domain)
    ELSE permission \in allowedPermissions

\* A permission request of the page at pageUrl.
PermissionRequest(pageUrl, permission, requestingUrl) ==
    /\ running
    /\ LET url == IF requestingUrl # NoRequestingUrl THEN requestingUrl
                  ELSE pageUrl
       IN lastOp' = [op |-> "permission", permission |-> permission,
                     page |-> pageUrl, url |-> url,
                     granted |-> permissionGranted(permission, url)]
    /\ out' = << >>
    /\ UNCHANGED extVars
    /\ UNCHANGED << running, storeVars, enabledServices, views, winFocused,
                    viewVars, badgeVars, iconVars >>

\* ------------------------------------------------------------------------
\* Zoom
\* ------------------------------------------------------------------------
\* A new factor that steps without limits.
newZoomUnclamped(currentZoom, zoomDirection) ==
    IF zoomDirection = "in" THEN currentZoom + ZoomStep
    ELSE currentZoom - ZoomStep

\* const newZoom of the zoom-changed listener
newZoom(currentZoom, zoomDirection) ==
    IF zoomDirection = "in"
    THEN (IF currentZoom + ZoomStep <= ZoomMax
          THEN currentZoom + ZoomStep ELSE ZoomMax)
    ELSE (IF currentZoom - ZoomStep >= ZoomMin
          THEN currentZoom - ZoomStep ELSE ZoomMin)

\* f[k] = v, for a key f has or lacks
Put(f, k, v) == [x \in DOMAIN f \cup {k} |-> IF x = k THEN v ELSE f[x]]

\* view.webContents.on("zoom-changed")
ZoomChanged(id, zoomDirection) ==
    /\ running
    /\ id \in DOMAIN zoomFactor
    /\ LET z == newZoom(zoomFactor[id], zoomDirection)
       IN /\ zoomFactor' = [zoomFactor EXCEPT ![id] = z]
          /\ zoomLevels' = Put(zoomLevels, id, z)
          /\ storeZoomLevels' = Put(zoomLevels, id, z)
    /\ out' = << >>
    /\ lastOp' = [op |-> "zoom", id |-> id, direction |-> zoomDirection]
    /\ UNCHANGED << running, storeVars, enabledServices, views, winFocused,
                    viewVars, badgeVars, iconVars, startup, bridgeVars,
                    notifyVars, rendererVars >>

\* The page of a loaded view starts loading again (navigation, reload).
Navigate(id) ==
    /\ running
    /\ id \in loadedViews
    /\ id \notin loading
    /\ loading' = loading \cup {id}
    /\ out' = << >>
    /\ lastOp' = [op |-> "navigate", id |-> id]
    /\ UNCHANGED extVars
    /\ UNCHANGED << running, storeVars, enabledServices, views, activeViewId,
                    loadedViews, childViews, focused, winFocused,
                    onceListeners, uiActiveTab, uiLoading, lastSwitch,
                    badgeVars, iconVars >>

\* ------------------------------------------------------------------------
\* Content pages (preload-web.js)
\* ------------------------------------------------------------------------
\* url of each content entry of VIEW_CONFIG, as the sequence of its parts
ConfigUrl(id) ==
    CASE id = "aistudio" -> << "https://", "aistudio.google.com" >>
      [] id = "gmail" -> << "https://", "mail.google.com", "/mail", "/u/0/" >>
      [] id = "calendar" ->
            << "https://", "calendar.google.com", "/calendar", "/u/0/r" >>
      [] id = "chat" ->
            << "https://", "mail.google.com", "/chat", "/u/0/#chat/home" >>
      [] id = "drive" ->
            << "https://", "drive.google.com", "/drive", "/u/0/my-drive" >>
      [] id = "tasks" -> << "https://", "tasks.google.com", "/tasks" >>

\* A page the session may be sent to instead of its own.
SignInUrl == << "https://", "accounts.google.com", "/signin" >>

\* String.prototype.includes
includes(href, needle) ==
    \E i \in 1..Len(href) :
        /\ i + Len(needle) - 1 <= Len(href)
        /\ SubSeq(href, i, i + Len(needle) - 1) = needle

\* getSourceId() of the page at href
getSourceId(href) ==
    IF includes(href, << "calendar.google.com" >>) THEN "calendar"
    ELSE IF includes(href, << "mail.google.com", "/chat" >>) THEN "chat"
    ELSE IF includes(href, << "drive.google.com" >>) THEN "drive"
    ELSE IF includes(href, << "tasks.google.com" >>) THEN "tasks"
    ELSE "gmail"

\* Documents: the title has an element or not, and its text holds "(n)"
\* for a number n or no such group (NoGroup).
NoGroup == -1

Titles ==
    { [element |-> FALSE, group |-> NoGroup] }
    \cup [element : { TRUE }, group : NoGroup..MaxCount]

IconHrefs == { "icon-a", "icon-b" }

\* let lastFaviconUrl = ""
InitialFaviconUrl == ""

\* let lastBadgeCount = -1
InitialBadgeCount == -1

NoMessage == [sent |-> FALSE]

UpdateFaviconMsg(sourceId, faviconUrl) ==
    [sent |-> TRUE, channel |-> "update-favicon", source |-> sourceId,
     faviconUrl |-> faviconUrl]

UpdateBadgeMsg(count) ==
    [sent |-> TRUE, channel |-> "update-badge", count |-> count,
     source |-> "gmail"]

\* titleMatch ? parseInt(titleMatch[1], 10) : 0
titleCount(title) == IF title.group = NoGroup THEN 0 ELSE title.group

\* currentUrl && currentUrl !== lastFaviconUrl
faviconChanged(currentUrl, last) == currentUrl # Null /\ currentUrl # last

\* A badge check that sends whatever it finds.
badgeChangedAlways(count, last) == TRUE

\* count !== lastBadgeCount
badgeChanged(count, last) == count # last

\* The notification of showGenericCalendarNotification
GenericNotification ==
    [channel |-> "show-notification", title |-> "Calendar Event",
     body |-> "You have a calendar reminder - check your calendar",
     source |-> "calendar"]

NeverEmitted == [emitted |-> FALSE]

\* A test of the window that lets a trigger through at its very end.
windowElapsedInclusive(t, last) == t - last >= DEBOUNCE_MS

\* Date.now() - lastNotificationTime > DEBOUNCE_MS
windowElapsed(t, last) == t - last > DEBOUNCE_MS

\* Service worker registrations of a page (by scope), each with its
\* __patched flag and the number of wrappers around its showNotification.
Registrations == { "sw-a", "sw-b" }

Unpatched == [patched |-> FALSE, wrappers |-> 0]

\* DOMContentLoaded in the page of view id, whose document is at href and
\* has the given title and icon link: the observers are set up and each
\* runs its first check; a calendar page also gets the detector and the
\* service worker patch.
PageReady(id, href, title, icon) ==
    /\ running
    /\ id \in ContentIds
    /\ id \in loadedViews
    /\ LET sourceId == getSourceId(href)
           favicon == faviconChanged(icon, InitialFaviconUrl)
           badge == sourceId = "gmail" /\ title.element
           count == titleCount(title)
       IN /\ pageSource' = Put(pageSource, id, sourceId)
          /\ docTitle' = Put(docTitle, id, title)
          /\ docIcon' = Put(docIcon, id, icon)
          /\ lastFaviconUrl' = Put(lastFaviconUrl, id,
                                   IF favicon THEN icon ELSE InitialFaviconUrl)
          /\ lastBadgeCount' = Put(lastBadgeCount, id,
                                   IF badge /\ badgeChanged(count, InitialBadgeCount)
                                   THEN count ELSE InitialBadgeCount)
          /\ observers' = Put(observers, id,
                              { "favicon" }
                              \cup (IF badge THEN { "badge" } ELSE {})
                              \cup (IF sourceId = "calendar"
                                    THEN { "play" } ELSE {})
                              \cup (IF sourceId = "calendar" /\ title.element
                                    THEN { "title" } ELSE {}))
          /\ lastNotificationTime' =
                IF sourceId = "calendar" THEN Put(lastNotificationTime, id, 0)
                ELSE lastNotificationTime
          /\ lastEmitted' =
                IF sourceId = "calendar" THEN Put(lastEmitted, id, NeverEmitted)
                ELSE lastEmitted
          /\ registrations' =
                IF sourceId = "calendar"
                THEN Put(registrations, id, [r \in Registrations |-> Unpatched])
                ELSE registrations
          /\ checkPending' = checkPending \ {id}
          /\ out' = (IF favicon THEN << UpdateFaviconMsg(sourceId, icon) >>
                     ELSE << >>)
                    \o (IF badge /\ badgeChanged(count, InitialBadgeCount)
                        THEN << UpdateBadgeMsg(count) >> ELSE << >>)
          /\ pageSent' = Put(pageSent, id,
                [favicon |-> IF favicon THEN UpdateFaviconMsg(sourceId, icon)
                             ELSE NoMessage,
                 badge |-> IF badge /\ badgeChanged(count, InitialBadgeCount)
                           THEN UpdateBadgeMsg(count) ELSE NoMessage])
    /\ lastOp' = [op |-> "ready", id |-> id, href |-> href]
    /\ UNCHANGED << running, storeVars, enabledServices, views, winFocused,
                    viewVars, badgeVars, iconVars, startup, bridgeVars,
                    notifyVars, zoomVars, now,
                    debounceVars >>

\* The text of the title element of page id changes: the badge observer
\* checks at once, the head observer schedules its debounced check, the
\* title observer of the calendar detector notifies.
TitleChanged(id, group) ==
    /\ running
    /\ id \in DOMAIN pageSource
    /\ docTitle[id].element
    /\ LET title == [element |-> TRUE, group |-> group]
           count == titleCount(title)
           send == /\ "badge" \in observers[id]
                   /\ badgeChanged(count, lastBadgeCount[id])
           notify == /\ "title" \in observers[id]
                     /\ group # NoGroup
                     /\ windowElapsed(now, lastNotificationTime[id])
       IN /\ docTitle' = [docTitle EXCEPT ![id] = title]
          /\ lastNotificationTime' =
                IF notify THEN [lastNotificationTime EXCEPT ![id] = now]
                ELSE lastNotificationTime
          /\ lastEmitted' =
                IF notify
                THEN [lastEmitted EXCEPT ![id] = [emitted |-> TRUE, at |-> now]]
                ELSE lastEmitted
          /\ lastBadgeCount' = IF send
                               THEN [lastBadgeCount EXCEPT ![id] = count]
                               ELSE lastBadgeCount
          /\ out' = (IF send THEN << UpdateBadgeMsg(count) >> ELSE << >>)
                    \o (IF notify THEN << GenericNotification >> ELSE << >>)
          /\ pageSent' = IF send
                         THEN [pageSent EXCEPT ![id].badge = UpdateBadgeMsg(count)]
                         ELSE pageSent
    /\ checkPending' = checkPending \cup {id}
    /\ lastOp' = [op |-> "title", id |-> id,
                  checked |-> "badge" \in observers[id]]
    /\ UNCHANGED << pageSource, docIcon, lastFaviconUrl, observers >>
    /\ UNCHANGED << running, storeVars, enabledServices, views, winFocused,
                    viewVars, badgeVars, iconVars, startup, bridgeVars,
                    notifyVars, zoomVars, now, registrations,
                    debounceVars >>

\* The icon links in the head of page id change: the head observer
\* schedules its debounced check.
HeadChanged(id, icon) ==
    /\ running
    /\ id \in DOMAIN pageSource
    /\ docIcon' = [docIcon EXCEPT ![id] = icon]
    /\ checkPending' = checkPending \cup {id}
    /\ out' = << >>
    /\ lastOp' = [op |-> "head", id |-> id]
    /\ UNCHANGED << pageSource, docTitle, lastFaviconUrl, lastBadgeCount,
                    observers, pageSent >>
    /\ UNCHANGED << running, storeVars, enabledServices, views, winFocused,
                    viewVars, badgeVars, iconVars, startup, bridgeVars,
                    notifyVars, zoomVars, calendarVars,
                    debounceVars >>

\* The debounced check of the head observer of page id runs.
FaviconCheck(id) ==
    /\ running
    /\ id \in checkPending
    /\ LET currentUrl == docIcon[id]
           send == faviconChanged(currentUrl, lastFaviconUrl[id])
           msg == UpdateFaviconMsg(pageSource[id], currentUrl)
       IN /\ lastFaviconUrl' = IF send
                               THEN [lastFaviconUrl EXCEPT ![id] = currentUrl]
                               ELSE lastFaviconUrl
          /\ out' = IF send THEN << msg >> ELSE << >>
          /\ pageSent' = IF send THEN [pageSent EXCEPT ![id].favicon = msg]
                         ELSE pageSent
    /\ checkPending' = checkPending \ {id}
    /\ lastOp' = [op |-> "favicon-check", id |-> id]
    /\ UNCHANGED << pageSource, docTitle, docIcon, lastBadgeCount, observers >>
    /\ UNCHANGED << running, storeVars, enabledServices, views, winFocused,
                    viewVars, badgeVars, iconVars, startup, bridgeVars,
                    notifyVars, zoomVars, calendarVars,
                    debounceVars >>

\* A media element of the calendar page starts playing.
Play(id, tagName) ==
    /\ running
    /\ id \in DOMAIN observers
    /\ "play" \in observers[id]
    /\ LET notify == /\ tagName = "AUDIO"
                     /\ windowElapsed(now, lastNotificationTime[id])
       IN /\ lastNotificationTime' =
                IF notify THEN [lastNotificationTime EXCEPT ![id] = now]
                ELSE lastNotificationTime
          /\ lastEmitted' =
                IF notify
                THEN [lastEmitted EXCEPT ![id] = [emitted |-> TRUE, at |-> now]]
                ELSE lastEmitted
          /\ out' = IF notify THEN << GenericNotification >> ELSE << >>
    /\ lastOp' = [op |-> "play", id |-> id, tagName |-> tagName]
    /\ UNCHANGED << now, registrations >>
    /\ UNCHANGED << running, storeVars, enabledServices, views, winFocused,
                    viewVars, badgeVars, iconVars, startup, bridgeVars,
                    notifyVars, zoomVars, pageVars, debounceVars >>

\* A patch that wraps whatever it is given.
patchShowNotificationAgain(registration) ==
    [patched |-> TRUE, wrappers |-> registration.wrappers + 1]

\* patchShowNotification(registration) of the injected script
patchShowNotification(registration) ==
    IF registration.patched THEN registration
    ELSE [patched |-> TRUE, wrappers |-> registration.wrappers + 1]

\* The injected script of calendar page id gets registration reg by one
\* of its paths and patches it.
PatchApplied(id, reg, path) ==
    /\ running
    /\ id \in DOMAIN registrations
    /\ registrations' =
          [registrations EXCEPT ![id][reg] = patchShowNotification(@)]
    /\ out' = << >>
    /\ lastOp' = [op |-> "patch", id |-> id, reg |-> reg, path |-> path]
    /\ UNCHANGED << now, lastNotificationTime, lastEmitted >>
    /\ UNCHANGED << running, storeVars, enabledServices, views, winFocused,
                    viewVars, badgeVars, iconVars, startup, bridgeVars,
                    notifyVars, zoomVars, pageVars, debounceVars >>

TriggerNotification(title, body, source) ==
    [channel |-> "show-notification", title |-> title, body |-> body,
     source |-> source]

OriginalShow(reg, title) ==
    [native |-> "showNotification", reg |-> reg, title |-> title]

\* The service worker client of calendar page id calls
\* registration.showNotification(title, options): every wrapper reports
\* to the bridge and calls what it wrapped, the innermost being the
\* registration's own method. hasBody: options carries a body.
ShowNotificationCall(id, reg, title, body, hasBody) ==
    /\ running
    /\ id \in DOMAIN registrations
    /\ out' = [k \in 1..registrations[id][reg].wrappers |->
                 TriggerNotification(title, IF hasBody THEN body ELSE "",
                                     pageSource[id])]
              \o << OriginalShow(reg, title) >>
    /\ lastOp' = [op |-> "show", id |-> id, reg |-> reg, title |-> title,
                  patched |-> registrations[id][reg].patched]
    /\ UNCHANGED calendarVars
    /\ UNCHANGED << running, storeVars, enabledServices, views, winFocused,
                    viewVars, badgeVars, iconVars, startup, bridgeVars,
                    notifyVars, zoomVars, pageVars, debounceVars >>

\* Time passes; a timer that is due runs before time moves on.
Advance ==
    /\ now + Tick <= MaxTime
    /\ timeout.pending => now + Tick <= timeout.deadline
    /\ now' = now + Tick
    /\ out' = << >>
    /\ lastOp' = [op |-> "tick"]
    /\ UNCHANGED << lastNotificationTime, lastEmitted, registrations,
                    debounceVars >>
    /\ UNCHANGED << running, storeVars, enabledServices, views, winFocused,
                    viewVars, badgeVars, iconVars, startup, bridgeVars,
                    notifyVars, zoomVars, pageVars >>

\* ------------------------------------------------------------------------
\* debounce(func, wait)
\* ------------------------------------------------------------------------
\* A call that leaves a timer that is already set alone.
setTimeoutOnce(t, at, args) ==
    IF t.pending THEN t
    ELSE [pending |-> TRUE, deadline |-> at + WAIT, args |-> args]

\* clearTimeout(timeout); timeout = setTimeout(later, wait)
setTimeout(t, at, args) ==
    [pending |-> TRUE, deadline |-> at + WAIT, args |-> args]

\* executedFunction(...args) of a function made by debounce(func, WAIT)
DebouncedCall(args) ==
    /\ running
    /\ Len(calls) < MaxCalls
    /\ timeout' = setTimeout(timeout, now, args)
    /\ calls' = Append(calls, [at |-> now, args |-> args])
    /\ out' = << >>
    /\ lastOp' = [op |-> "call", args |-> args]
    /\ UNCHANGED << runs, calendarVars >>
    /\ UNCHANGED << running, storeVars, enabledServices, views, winFocused,
                    viewVars, badgeVars, iconVars, startup, bridgeVars,
                    notifyVars, zoomVars, pageVars >>

\* later(): the timer runs func with the arguments of the call that set it
Later ==
    /\ running
    /\ timeout.pending
    /\ now >= timeout.deadline
    /\ timeout' = NoTimer
    /\ runs' = Append(runs, [at |-> now, args |-> timeout.args])
    /\ out' = << >>
    /\ lastOp' = [op |-> "later"]
    /\ UNCHANGED << calls, calendarVars >>
    /\ UNCHANGED << running, storeVars, enabledServices, views, winFocused,
                    viewVars, badgeVars, iconVars, startup, bridgeVars,
                    notifyVars, zoomVars, pageVars >>

\* ------------------------------------------------------------------------
\* Specifications
\* ------------------------------------------------------------------------
Next ==
    \/ Create
    \/ \E tabId \in AnyId : SwitchTab(tabId)
    \/ WinBlur
    \/ WinFocus
    \/ Quit
    \/ \E id \in ContentIds : ToggleService(id)

Spec == Init /\ [][Next]_vars
\* The badge aggregator over restarts.
NextBadge ==
    \/ Create
    \/ \E msg \in BadgePayloads : UpdateBadge(msg)
    \/ Quit

InitBadge == Init /\ storeLastTab = Null

SpecBadge == InitBadge /\ [][NextBadge]_vars

\* The favicon proxy and its requests in flight.
NextFavicon ==
    \/ Create
    \/ \E source \in FaviconSources, url \in FaviconUrls : UpdateFavicon(source, url)
    \/ \E i \in 1..MaxFetches, status \in {200, 404} : FetchResponse(i, status)
    \/ \E i \in 1..MaxFetches : FetchError(i)

InitFavicon ==
    /\ Init
    /\ storeLastTab = Null
    /\ EnabledIds(LoadServices(storeServices)) \in { {"gmail"}, {"gmail", "chat"} }

SpecFavicon == InitFavicon /\ [][NextFavicon]_vars

\* The menu page sending through the bridge.
NextSend ==
    \/ Create
    \/ \E channel \in UiSendInputs, data \in UiSendData : UiSend(channel, data)
    \/ IpcDeliver
    \/ Quit

SpecSend == InitFavicon /\ [][NextSend]_vars

\* The menu page subscribing through the bridge.
NextListen ==
    \/ Create
    \/ \E channel \in UiOnInputs, func \in Funcs : UiOn(channel, func)
    \/ \E i \in 1..MaxSubs : UiUnsubscribe(i)
    \/ \E channel \in MenuChannels : MenuReceive(channel)

SpecListen == InitFavicon /\ [][NextListen]_vars

\* The notification relay.
NextNotify ==
    \/ Create
    \/ \E title \in NoteTitles, body \in NoteBodies, source \in NoteSources,
          listening \in BOOLEAN, supported \in BOOLEAN :
          ShowNotification(title, body, source, listening, supported)
    \/ \E h \in shown : NotificationClick(h)
    \/ \E h \in shown : NotificationClose(h)
    \/ WinBlur
    \/ Quit

SpecNotify == InitFavicon /\ [][NextNotify]_vars

\* The two content-page channels fed payloads of every shape.
NextPayload ==
    \/ Create
    \/ \E payload \in RawBadgePayloads : IpcUpdateBadge(payload)
    \/ \E payload \in RawFaviconPayloads : IpcUpdateFavicon(payload)
    \/ Quit

SpecPayload == InitFavicon /\ [][NextPayload]_vars

\* Pages asking for permissions.
NextPermission ==
    \/ Create
    \/ \E pageUrl \in RequestUrls,
          permission \in { "notifications", "media", "geolocation",
                           "clipboard-read" },
          requestingUrl \in RequestUrls \cup { NoRequestingUrl } :
          PermissionRequest(pageUrl, permission, requestingUrl)
    \/ Quit

SpecPermission == InitFavicon /\ [][NextPermission]_vars

\* Zooming the pages, over several runs of the application.
NextZoom ==
    \/ Create
    \/ \E id \in ContentIds, zoomDirection \in { "in", "out" } :
          ZoomChanged(id, zoomDirection)
    \/ \E id \in ContentIds : Navigate(id)
    \/ \E id \in VALID_VIEW_IDS : DidFinishLoad(id)
    \/ Quit

SpecZoom == InitFavicon /\ [][NextZoom]_vars

\* One content page and its observers, for each content session.
NextPage ==
    \/ Create
    \/ \E id \in ContentIds :
          \E href \in { ConfigUrl(id), SignInUrl }, title \in Titles,
             icon \in IconHrefs \cup { Null } :
             PageReady(id, href, title, icon)
    \/ \E id \in ContentIds, group \in NoGroup..MaxCount : TitleChanged(id, group)
    \/ \E id \in ContentIds, icon \in IconHrefs \cup { Null } : HeadChanged(id, icon)
    \/ \E id \in ContentIds : FaviconCheck(id)
    \/ Quit

InitPage ==
    /\ Init
    /\ storeLastTab \in ContentIds
    /\ EnabledIds(LoadServices(storeServices)) = { storeLastTab }

SpecPage == InitPage /\ [][NextPage]_vars

\* The calendar page and its fallback detector, with time passing.
InitCalendar ==
    /\ Init
    /\ storeLastTab = "calendar"
    /\ EnabledIds(LoadServices(storeServices)) = { "calendar" }

NextFallback ==
    \/ Create
    \/ \E title \in Titles :
          PageReady("calendar", ConfigUrl("calendar"), title, Null)
    \/ \E group \in NoGroup..MaxCount : TitleChanged("calendar", group)
    \/ \E tagName \in { "AUDIO", "VIDEO" } : Play("calendar", tagName)
    \/ Advance

SpecFallback == InitCalendar /\ [][NextFallback]_vars

\* The calendar page and the service worker patch of its injected script.
NextPatch ==
    \/ Create
    \/ \E title \in Titles :
          PageReady("calendar", ConfigUrl("calendar"), title, Null)
    \/ \E reg \in Registrations,
          path \in { "register", "ready", "getRegistrations" } :
          PatchApplied("calendar", reg, path)
    \/ \E reg \in Registrations, title \in NoteTitles, body \in NoteBodies,
          hasBody \in BOOLEAN :
          ShowNotificationCall("calendar", reg, title, body, hasBody)
    \/ Quit

SpecPatch == InitCalendar /\ [][NextPatch]_vars

\* A debounced function called at any times.
NextDebounce ==
    \/ Create
    \/ \E args \in { "m1", "m2" } : DebouncedCall(args)
    \/ Later
    \/ Advance

SpecDebounce == InitCalendar /\ [][NextDebounce]_vars

\* Startup, with and without a view that fails to be created.
NextStartup ==
    \/ Create
    \/ \E failed \in VALID_VIEW_IDS, late \in BOOLEAN : CreateFailing(failed, late)
    \/ \E id \in ContentIds, url \in OpenUrls : WindowOpen(id, url)
    \/ WinBlur
    \/ WinFocus
    \/ Quit

SpecStartup == Init /\ [][NextStartup]_vars

\* Tabs with their page loads and the menu shortcuts.
NextLoad ==
    \/ Create
    \/ \E tabId \in AnyId : SwitchTab(tabId)
    \/ \E k \in 1..Len(VIEW_CONFIG) : Shortcut(k)
    \/ \E id \in VALID_VIEW_IDS : DidFinishLoad(id)
    \/ Quit

\* Services maps the tab machine is started from.
LoadServiceSets ==
    { {}, { "gmail" }, { "drive" }, { "gmail", "chat" },
      { "calendar", "tasks" }, { "aistudio", "gmail" } }

InitLoad ==
    /\ Init
    /\ storeLastTab = Null
    /\ EnabledIds(LoadServices(storeServices)) \in LoadServiceSets

SpecLoad == InitLoad /\ [][NextLoad]_vars

\* One process lifetime in which every started load finishes.
NextLive ==
    \/ Create
    \/ \E tabId \in { "gmail", "chat", MENU } : SwitchTab(tabId)
    \/ \E id \in VALID_VIEW_IDS : DidFinishLoad(id)

SpecLive ==
    /\ InitFavicon
    /\ [][NextLive]_vars
    /\ \A id \in VALID_VIEW_IDS : WF_vars(DidFinishLoad(id))

\* ------------------------------------------------------------------------
\* Properties
\* ------------------------------------------------------------------------
\* The enabled content sessions that have a live view.
LiveEnabled == { id \in EnabledIds(enabledServices) : id \in SeqToSet(views) }

\* Sum of the stored counts, entry by entry in VIEW_CONFIG order.
RECURSIVE StoredSumFrom(_)
StoredSumFrom(i) ==
    IF i > Len(VIEW_CONFIG) THEN 0
    ELSE (IF VIEW_CONFIG[i].id \in DOMAIN unreadCounts
          THEN unreadCounts[VIEW_CONFIG[i].id] ELSE 0) + StoredSumFrom(i + 1)

StoredSum == StoredSumFrom(1)

\* The topmost content view of the window, Null when there is none.
TopContent ==
    LET cs == SeqFilter(childViews, ContentIds)
    IN IF cs = << >> THEN Null ELSE cs[Len(cs)]

\* The content sessions that are topmost and have input focus.
Foregrounded == { id \in ContentIds : TopContent = id /\ focused = id }

\* C1: after any update-badge message the total given to the OS badge is the
\* sum of the counts stored at that moment, and the map sent to the menu on
\* update-menu-badges is the stored map.
C1_TotalIsSumOfStored ==
    /\ badgeCount.set =>
          /\ badgeCount.total = StoredSum
          /\ uiBadges = [sent |-> TRUE, counts |-> unreadCounts]
    /\ lastOp.op = "badge" =>
          /\ badgeCount.set
          /\ out = << SetBadgeCount(StoredSum), UpdateMenuBadges(unreadCounts) >>

C1_Witness ==
    /\ lastOp.op = "badge"
    /\ badgeCount.set
    /\ badgeCount.total = 3
    /\ \E a, b \in DOMAIN unreadCounts :
          a # b /\ unreadCounts[a] = 2 /\ unreadCounts[b] = 1

\* C2: an update-badge whose source is not an enabled content session
\* changes no stored count and emits nothing (no OS badge update, no
\* update-menu-badges).
C2_NonEnabledSourceIsNoOp ==
    [][(lastOp'.op = "badge" /\ lastOp'.msg.source \notin LiveEnabled)
        => (unreadCounts' = unreadCounts /\ out' = << >>)]_vars

\* C3: an update-favicon whose source is not an enabled content session
\* issues no fetch and emits no update-menu-icon, for data: and remote
\* references alike.
C3_NonEnabledSourceNoFetchNoIcon ==
    (lastOp.op = "favicon" /\ lastOp.source \notin LiveEnabled) => out = << >>

\* C4: activeViewId is unset or the id of an enabled content session with a
\* live view.
C4_ActiveIsEnabledContent ==
    running => (activeViewId = Null \/ activeViewId \in LiveEnabled)

\* C5: after _switchToTab(tabId), activeViewId is tabId exactly when tabId
\* was an enabled session id with a live view.
C5_ActiveIsTargetIffValid ==
    lastOp.op = "switch" =>
        ((lastOp.tabId # Null /\ activeViewId = lastOp.tabId)
            <=> lastOp.tabId \in LiveEnabled)

\* C6: a switch-tab for an id that is not an enabled session id changes
\* nothing (active id, persisted lastTab, loaded set, stacking order, loads)
\* and sends nothing.
C6_SwitchToNonEnabledIsNoOp ==
    [][(lastOp'.op = "switch" /\ lastOp'.tabId \notin LiveEnabled)
        => (/\ UNCHANGED << activeViewId, storeLastTab, loadedViews,
                            childViews, loading >>
            /\ out' = << >>)]_vars

\* C7: at most one content session is foregrounded, and the tab the menu
\* was last told is active is that session: it is the topmost content view
\* and no other session has the focus.
C7_OneForegroundMatchesMenu ==
    running =>
        /\ Cardinality(Foregrounded) <= 1
        /\ uiActiveTab # Null =>
              /\ TopContent = uiActiveTab
              /\ Foregrounded \subseteq {uiActiveTab}

\* The first enabled content session in VIEW_CONFIG order, Null when none.
FirstEnabled ==
    LET idx == { i \in ConfigIdx : VIEW_CONFIG[i].id \in LiveEnabled }
    IN IF idx = {} THEN Null
       ELSE VIEW_CONFIG[CHOOSE i \in idx : \A j \in idx : i <= j].id

\* The lastTab the startup reads: store.get("lastTab", "gmail").
ReadLastTab == IF storeLastTab = Null THEN GMAIL ELSE storeLastTab

\* C8: at startup the active session is the persisted lastTab when it is an
\* enabled content session with a live view, else the first enabled content
\* session in VIEW_CONFIG order, else unset; in the first two cases exactly
\* that session is loaded and it is the topmost content view.
C8_InitialActive ==
    lastOp.op = "create" =>
        LET expected == IF ReadLastTab \in LiveEnabled THEN ReadLastTab
                        ELSE FirstEnabled
        IN /\ activeViewId = expected
           /\ expected # Null =>
                 (loadedViews = {expected} /\ TopContent = expected)

\* C9: when the last successful switch targeted id and the process starts
\* again with id enabled, the initial activeViewId is id.
C9_ActiveTabRoundTrip ==
    (lastOp.op = "create" /\ lastSwitch # Null
        /\ IsEnabled(enabledServices, lastSwitch))
    => activeViewId = lastSwitch

C9_Witness ==
    /\ lastOp.op = "create"
    /\ lastSwitch \in LiveEnabled
    /\ activeViewId = lastSwitch
    /\ lastSwitch # GMAIL
    /\ lastSwitch # FirstEnabled

\* C10: a content session whose enabledServices entry is false has no live
\* view: no entry in views, nothing attached to the window; also right
\* after the relaunch that a toggle triggers.
C10_DisabledHasNoView ==
    \A id \in ContentIds :
        ~IsEnabled(enabledServices, id) =>
            (id \notin SeqToSet(views) /\ id \notin SeqToSet(childViews))

C10_Witness ==
    /\ running
    /\ lastOp.op = "create"
    /\ lastOp.after.op = "toggle"
    /\ ~IsEnabled(enabledServices, lastOp.after.id)
    /\ lastOp.after.id \notin SeqToSet(views)
    /\ LiveEnabled # {}

\* C11: a toggle flips exactly the toggled service's key of the services
\* map, in memory and in the store; every other key keeps its value, and
\* the relaunched process starts from the map the toggle persisted.
C11_ToggleFlipsOneKey ==
    /\ [][lastOp'.op = "toggle" =>
            /\ DOMAIN storeServices' = ContentIds
            /\ \A k \in ContentIds :
                  storeServices'[k] =
                      (IF k = lastOp'.id THEN ~enabledServices[k]
                       ELSE LoadServices(storeServices)[k])]_vars
    /\ []((lastOp.op = "create" /\ lastOp.after.op = "toggle")
            => enabledServices = storeServices)

C11_Witness ==
    /\ lastOp.op = "create"
    /\ lastOp.after.op = "toggle"
    /\ enabledServices[lastOp.after.id] = FALSE
    /\ \E k \in ContentIds \ {lastOp.after.id} : enabledServices[k]

\* C12: a send on a channel outside the send allow-list forwards nothing:
\* the queue towards ipcMain and every piece of orchestrator state stay as
\* they were, only a console warning is produced, and no listener of
\* ipcMain ever runs for such a channel.
C12_RefusedSendForwardsNothing ==
    /\ [][(lastOp'.op = "send"
           /\ lastOp'.channel \notin { "switch-tab", "show-context-menu" })
          => /\ ipcQueue' = ipcQueue
             /\ out' = << [console |-> "warn", channel |-> lastOp'.channel] >>
             /\ UNCHANGED << running, storeVars, enabledServices, views,
                             winFocused, viewVars, badgeVars, iconVars,
                             startup, subs, handles, notifyVars >>]_vars
    /\ [](\A i \in 1..Len(ipcQueue) :
             ipcQueue[i].channel \in { "switch-tab", "show-context-menu" })
    /\ [](lastOp.op = "ipc" =>
             lastOp.channel \in { "switch-tab", "show-context-menu" })

C12_Witness ==
    /\ lastOp.op = "send"
    /\ lastOp.channel = "update-badge"
    /\ Len(ipcQueue) = 1
    /\ unreadCounts = [id \in DOMAIN unreadCounts |-> 0]
    /\ activeViewId = "chat"

\* C13: electronAPI.on for a channel outside the receive allow-list
\* registers no listener (no subscription is ever held for such a channel
\* and a message arriving on it runs nothing), and the function it returns
\* changes nothing, however often it is called.
C13_RefusedOnRegistersNothing ==
    /\ [](\A i \in 1..Len(subs) :
             subs[i].channel \in { "set-active-tab", "update-menu-badges",
                                   "update-menu-icon", "get-enabled-services" })
    /\ []((lastOp.op = "receive"
           /\ lastOp.channel \notin { "set-active-tab", "update-menu-badges",
                                      "update-menu-icon", "get-enabled-services" })
          => invoked = << >>)
    /\ [][(lastOp'.op = "on"
           /\ lastOp'.channel \notin { "set-active-tab", "update-menu-badges",
                                       "update-menu-icon", "get-enabled-services" })
          => UNCHANGED << subs, invoked, unsubscribed, ipcQueue >>]_vars
    /\ [][(lastOp'.op = "unsubscribe"
           /\ lastOp'.handle \in 1..Len(handles)
           /\ handles[lastOp'.handle].channel
                 \notin { "set-active-tab", "update-menu-badges",
                          "update-menu-icon", "get-enabled-services" })
          => UNCHANGED << subs, handles, invoked, unsubscribed, ipcQueue,
                          running, storeVars, enabledServices, views,
                          winFocused, viewVars, badgeVars, iconVars,
                          startup, notifyVars >>]_vars

C13_Witness ==
    /\ lastOp.op = "unsubscribe"
    /\ handles[lastOp.handle].channel = "set-loading-state"
    /\ Len(subs) = 2
    /\ unsubscribed = {}

\* The calls of electronAPI.on that registered a listener on the channel
\* and whose unsubscribe function has not been called.
LiveCalls(channel) ==
    { i \in 1..Len(handles) :
         /\ handles[i].channel = channel
         /\ channel \in { "set-active-tab", "update-menu-badges",
                          "update-menu-icon", "get-enabled-services" }
         /\ i \notin unsubscribed }

\* C14: on an allow-listed channel the unsubscribe function removes exactly
\* the listener its own call registered: every other listener stays, in
\* order; a message then runs every live subscriber of the channel and
\* never an unsubscribed one; calling unsubscribe again changes nothing.
C14_UnsubscribeRemovesOwnListener ==
    /\ [][(lastOp'.op = "unsubscribe" /\ lastOp'.handle \in 1..Len(handles))
          => /\ SeqToSet(subs') =
                   { s \in SeqToSet(subs) : s.sub # lastOp'.handle }
             /\ Len(subs') = Cardinality(SeqToSet(subs'))
             /\ handles' = handles
             /\ (lastOp'.handle \in unsubscribed => subs' = subs)]_vars
    /\ [](\A a, b \in 1..Len(subs) : a < b => subs[a].sub < subs[b].sub)
    /\ [](lastOp.op = "receive" =>
             /\ \A k \in 1..Len(invoked) :
                   /\ invoked[k].sub \notin unsubscribed
                   /\ invoked[k].channel = lastOp.channel
             /\ \A i \in LiveCalls(lastOp.channel) :
                   \E k \in 1..Len(invoked) : invoked[k].sub = i
             /\ Len(invoked) = Cardinality(LiveCalls(lastOp.channel)))

C14_Witness ==
    /\ lastOp.op = "receive"
    /\ lastOp.channel = "set-active-tab"
    /\ Len(handles) = 3
    /\ \A i \in 1..3 : handles[i].channel = "set-active-tab"
    /\ unsubscribed = { 2 }
    /\ Len(invoked) = 2
    /\ invoked[1].func = invoked[2].func

\* C15: an update-favicon carrying a data: URL is forwarded once on
\* update-menu-icon with the same source and the very same reference, the
\* menu then holds that reference for the source, and no request is issued.
C15_DataUrlPassthrough ==
    /\ []((lastOp.op = "favicon" /\ lastOp.url.scheme = "data")
          => /\ out = << [channel |-> "update-menu-icon",
                          source |-> lastOp.source,
                          dataUrl |-> lastOp.url] >>
             /\ uiIcons[lastOp.source] = lastOp.url)
    /\ [][(lastOp'.op = "favicon" /\ lastOp'.url.scheme = "data")
          => Len(fetches') = Len(fetches)]_vars

C15_Witness ==
    /\ lastOp.op = "favicon"
    /\ lastOp.url.scheme = "data"
    /\ lastOp.source = "gmail"
    /\ Len(out) = 1
    /\ Len(fetches) = 1

\* The messages of a batch that go to the menu on update-menu-icon.
IconMessages(o) ==
    { k \in 1..Len(o) :
         "channel" \in DOMAIN o[k] /\ o[k].channel = "update-menu-icon" }

\* C16: a remote reference leads to an update-menu-icon exactly when its
\* response ends with status 200; the request being issued, a response
\* with another status, a request error and a reference net.request
\* rejects emit nothing and leave the menu's icons and all other state of
\* the orchestrator as they were.
C16_RemoteForwardedIffOk ==
    /\ [](lastOp.op = "response" =>
            /\ (IconMessages(out) # {} <=> lastOp.status = 200)
            /\ (lastOp.status = 200 =>
                   /\ Len(out) = 1
                   /\ out[1].source = lastOp.source
                   /\ out[1].dataUrl.scheme = "data"
                   /\ uiIcons[lastOp.source] = out[1].dataUrl))
    /\ [][(\/ lastOp'.op = "error"
           \/ (lastOp'.op = "response" /\ lastOp'.status # 200)
           \/ (lastOp'.op = "favicon"
               /\ lastOp'.url.scheme \in { "https", "bad" }))
          => /\ IconMessages(out') = {}
             /\ UNCHANGED << uiIcons, running, storeVars, enabledServices,
                             views, winFocused, viewVars, badgeVars,
                             extVars >>]_vars

C16_Witness ==
    /\ lastOp.op = "response"
    /\ lastOp.status = 404
    /\ lastOp.source \in DOMAIN uiIcons
    /\ uiIcons[lastOp.source].body = "enc-a"
    /\ lastOp.url.body = "b"

\* C17: per source at most one favicon request is in flight, and an
\* update-menu-icon never comes from a request after which a further
\* update-favicon of the same source has been received.
C17_NewerRequestSupersedes ==
    /\ \A i, j \in 1..Len(fetches) :
          i # j => fetches[i].source # fetches[j].source
    /\ (lastOp.op = "response" /\ lastOp.status = 200) => ~lastOp.superseded

\* C18: every show-notification message a content bridge sends results in
\* an OS notification with that title and body being shown.
C18_EveryIntentIsShown ==
    lastOp.op = "notify" =>
        \E h \in shown : h.title = lastOp.title /\ h.body = lastOp.body

\* C19: the active-notification set holds exactly the handles of the
\* notifications on display (shown, neither clicked nor closed), and a
\* click leaves the window focused.
C19_ActiveSetIsDisplayedSet ==
    /\ activeNotifications = shown
    /\ (lastOp.op = "click" => winFocused)

\* C20: when the creation of one entry's view fails, every other entry
\* that is due a view (the menu and the enabled services) has one, and
\* startup completes: the views are attached, the menu page is loading and
\* an initial tab is active whenever a content view exists.
C20_StartupSurvivesViewFailure ==
    lastOp.op = "create-failing" =>
        /\ SeqToSet(views) =
              ({ "menu" } \cup EnabledIds(enabledServices)) \ { lastOp.failed }
        /\ SeqToSet(childViews) = SeqToSet(views)
        /\ startup = "complete"
        /\ "menu" \in loading
        /\ (SeqToSet(views) \cap ContentIds # {} => activeViewId # Null)

\* The sessions whose loadURL a batch of effects starts.
LoadsStarted(o) ==
    { id \in VALID_VIEW_IDS :
         \E k \in 1..Len(o) : o[k] = [fx |-> "loadURL", view |-> id] }

\* C21: within one process lifetime a session's load is started at most
\* once: startup starts at most one load and records it, a later handler
\* starts a load only for a session outside the loaded set and adds exactly
\* the sessions whose load it starts, and the loaded set never shrinks.
C21_LoadStartedAtMostOnce ==
    [][IF lastOp'.op = "create"
       THEN /\ Cardinality(loadedViews') <= 1
            /\ loading' = loadedViews' \cup { "menu" }
       ELSE running' =>
               /\ LoadsStarted(out') \cap loadedViews = {}
               /\ loadedViews' = loadedViews \cup LoadsStarted(out')]_vars

C21_Witness ==
    /\ lastOp.op = "switch"
    /\ lastOp.tabId \in loadedViews
    /\ lastOp.tabId \notin loading
    /\ activeViewId = lastOp.tabId
    /\ LoadsStarted(out) = {}
    /\ Cardinality(loadedViews) = 2

\* C22: a set-loading-state with loading false is emitted for a session
\* only once that session's load has finished, and only by the step in
\* which the load finishes.
C22_LoadingOffOnlyAfterLoad ==
    \A id \in VALID_VIEW_IDS :
        (\E k \in 1..Len(out) :
            out[k] = [channel |-> "set-loading-state", serviceId |-> id,
                      loading |-> FALSE])
        => (id \in loadedViews /\ id \notin loading)

\* Position of a view id in VIEW_CONFIG.
ConfigPos(id) == CHOOSE i \in ConfigIdx : VIEW_CONFIG[i].id = id

\* Number of enabled content sessions that precede id in VIEW_CONFIG.
EnabledBefore(id) ==
    Cardinality({ j \in EnabledIds(enabledServices) : ConfigPos(j) < ConfigPos(id) })

\* C23: there are as many shortcuts as enabled content sessions, and
\* shortcut k switches to the enabled content session that has exactly
\* k - 1 enabled sessions before it in VIEW_CONFIG; a disabled session is
\* never the target.
C23_ShortcutIsKthEnabled ==
    /\ running =>
          Len(serviceShortcuts(enabledServices)) =
              Cardinality(EnabledIds(enabledServices))
    /\ lastOp.op = "shortcut" =>
          /\ lastOp.tabId \in EnabledIds(enabledServices)
          /\ EnabledBefore(lastOp.tabId) = lastOp.k - 1
          /\ activeViewId = lastOp.tabId

C23_Witness ==
    /\ lastOp.op = "shortcut"
    /\ lastOp.k = 2
    /\ lastOp.tabId = "tasks"
    /\ EnabledIds(enabledServices) = { "calendar", "tasks" }
    /\ activeViewId = "tasks"

\* C24: every stored unread count is a non-negative integer.
C24_StoredCountsAreNatural ==
    \A id \in DOMAIN unreadCounts : unreadCounts[id] \in Nat

\* C26: the keys of unreadCounts are ids of enabled content sessions,
\* whatever the sources of the update-badge messages received.
C26_CountKeysAreEnabledContent ==
    /\ DOMAIN unreadCounts \subseteq ContentIds
    /\ \A id \in DOMAIN unreadCounts : enabledServices[id]

C26_Witness ==
    /\ lastOp.op = "badge"
    /\ lastOp.msg.source = "menu"
    /\ "count" \in DOMAIN lastOp.msg
    /\ lastOp.msg.count = 2
    /\ DOMAIN unreadCounts = { "gmail", "chat" }

\* C27: an update-badge of an enabled source sets that source's stored
\* count to the message's count (0 when it carries none) and keeps every
\* other count; the same message once more changes nothing.
C27_OverwriteOnlyOwnCount ==
    /\ [][(lastOp'.op = "badge" /\ lastOp'.msg.source \in LiveEnabled)
          => unreadCounts' =
                [k \in DOMAIN unreadCounts |->
                    IF k = lastOp'.msg.source
                    THEN (IF "count" \in DOMAIN lastOp'.msg
                          THEN lastOp'.msg.count ELSE 0)
                    ELSE unreadCounts[k]]]_vars
    /\ [][(lastOp.op = "badge" /\ lastOp'.op = "badge"
           /\ lastOp'.msg.source \in LiveEnabled
           /\ lastOp'.msg = lastOp.msg)
          => UNCHANGED << unreadCounts, badgeCount, uiBadges >>]_vars

C27_Witness ==
    /\ lastOp.op = "badge"
    /\ lastOp.msg.source = "gmail"
    /\ "count" \in DOMAIN lastOp.msg
    /\ lastOp.msg.count = 1
    /\ DOMAIN unreadCounts = { "gmail", "chat" }
    /\ unreadCounts["gmail"] = 1
    /\ unreadCounts["chat"] = 2

\* C25: a content session's attempt to open a window hands the URL to the
\* OS handler once and does nothing else: no window is opened, and the
\* views and their stacking stay as they were.
C25_WindowOpenGoesExternal ==
    /\ [](lastOp.op = "window-open" =>
             out = << [os |-> "openExternal", url |-> lastOp.url] >>)
    /\ [][lastOp'.op = "window-open" =>
             UNCHANGED << views, childViews, activeViewId, loadedViews,
                          loading, focused >>]_vars

C25_Witness ==
    /\ lastOp.op = "window-open"
    /\ lastOp.id = "chat"
    /\ lastOp.url = "https://example.org/a"
    /\ Len(views) = 3
    /\ Len(out) = 1

\* C28: after a switch that passed the guard (by message or shortcut),
\* activeViewId, the persisted lastTab and the tabId of the last
\* set-active-tab sent to the menu are all the switch's target, and that
\* set-active-tab closes the handler's output.
C28_ActiveStoredAndMenuAgree ==
    (lastOp.op \in { "switch", "shortcut" } /\ lastOp.tabId \in SeqToSet(views))
    => /\ activeViewId = lastOp.tabId
       /\ storeLastTab = lastOp.tabId
       /\ uiActiveTab = lastOp.tabId
       /\ out # << >>
       /\ out[Len(out)] = [channel |-> "set-active-tab", tabId |-> lastOp.tabId]

C28_Witness ==
    /\ lastOp.op = "switch"
    /\ lastOp.tabId = "chat"
    /\ activeViewId = "chat"
    /\ storeLastTab = "chat"
    /\ uiActiveTab = "chat"
    /\ "gmail" \in loadedViews

\* Positions of an effect in a batch.
FxAt(o, kind, id) ==
    { k \in 1..Len(o) : o[k] = [fx |-> kind, view |-> id] }

\* Positions of blur signals in a batch.
BlursAt(o) ==
    { k \in 1..Len(o) : "fx" \in DOMAIN o[k] /\ o[k].fx = "blur" }

\* C29: in a switch that passed the guard, when a view was active exactly
\* one blur is sent, to that view, before the target is raised and
\* focused; when nothing was active no blur is sent; input focus ends on
\* the target.
C29_BlurBeforeRaiseAndFocus ==
    [][(lastOp'.op \in { "switch", "shortcut" }
        /\ lastOp'.tabId \in SeqToSet(views))
       => /\ focused' = lastOp'.tabId
          /\ \E r \in FxAt(out', "addChildView", lastOp'.tabId) :
             \E f \in FxAt(out', "focus", lastOp'.tabId) :
                /\ r < f
                /\ IF activeViewId = Null
                   THEN BlursAt(out') = {}
                   ELSE /\ BlursAt(out') = FxAt(out', "blur", activeViewId)
                        /\ Cardinality(BlursAt(out')) = 1
                        /\ \A b \in BlursAt(out') : b < r]_vars

C29_Witness ==
    /\ lastOp.op = "switch"
    /\ lastOp.tabId = "chat"
    /\ FxAt(out, "blur", "gmail") # {}
    /\ FxAt(out, "loadURL", "chat") # {}
    /\ focused = "chat"

\* C30: when every started load finishes, a loading indicator the menu
\* was told to show for an id is eventually told off again.
C30_LoadingEventuallyOff ==
    \A id \in VALID_VIEW_IDS : (id \in uiLoading) ~> (id \notin uiLoading)

\* C31: an electronAPI.on call for any channel the orchestrator sends on
\* holds a listener until it is unsubscribed, and a message on that
\* channel runs it.
C31_OrchestratorChannelsAreReceivable ==
    \A i \in 1..Len(handles) :
        (/\ handles[i].channel \in { "set-active-tab", "update-menu-badges",
                                     "update-menu-icon", "set-loading-state",
                                     "get-enabled-services" }
         /\ i \notin unsubscribed)
        => /\ \E k \in 1..Len(subs) : subs[k].sub = i
           /\ (lastOp.op = "receive" /\ lastOp.channel = handles[i].channel)
                 => \E k \in 1..Len(invoked) : invoked[k].sub = i

\* C32: the message sent when the menu page finishes loading carries, as
\* activeId, the tab that is active at that moment, whatever switches
\* were handled since startup.
C32_ActiveIdIsCurrentAtMenuLoad ==
    (lastOp.op = "loaded" /\ lastOp.id = "menu")
    => /\ Len(out) >= 1
       /\ out[Len(out)].channel = "get-enabled-services"
       /\ out[Len(out)].activeId = activeViewId
       /\ out[Len(out)].services = enabledServices

C32_Witness ==
    /\ lastOp.op = "loaded"
    /\ lastOp.id = "menu"
    /\ lastSwitch # Null
    /\ activeViewId = lastSwitch
    /\ activeViewId # GMAIL
    /\ activeViewId # FirstEnabled
    /\ out[Len(out)].activeId = activeViewId

\* A payload with the fields its listener reads, of the types it expects.
WellFormed(op, payload) ==
    /\ payload.kind = "object"
    /\ \/ /\ op = "ipc-badge"
          /\ DOMAIN payload.fields = { "source", "count" }
       \/ /\ op = "ipc-favicon"
          /\ DOMAIN payload.fields = { "source", "faviconUrl" }
          /\ payload.fields.faviconUrl # NotAString

\* C33: an update-badge or update-favicon message whose payload is absent
\* or lacks a field, or carries a field of the wrong type, changes no
\* state, emits nothing and raises no exception.
C33_MalformedPayloadIsContained ==
    [][(/\ lastOp'.op \in { "ipc-badge", "ipc-favicon" }
        /\ ~WellFormed(lastOp'.op, lastOp'.payload))
       => /\ ~lastOp'.threw
          /\ out' = << >>
          /\ UNCHANGED << badgeVars, iconVars >>]_vars

\* The scheme and host of a URL: its parts up to the path.
OriginOf(url) ==
    SeqFilter(url, { "https://", "http://",
                     "mail.google.com", "calendar.google.com",
                     "chat.google.com", "aistudio.google.com",
                     "tasks.google.com", "drive.google.com",
                     ".evil.example", "evil.example" })

\* C34: notifications are granted exactly to requests whose URL has an
\* allow-listed origin, media is granted, every other permission is
\* denied; a URL of another host whose text begins with an allow-listed
\* origin is denied.
C34_PermissionByOrigin ==
    lastOp.op = "permission"
    => lastOp.granted =
          IF lastOp.permission = "notifications"
          THEN OriginOf(lastOp.url) \in googleDomains
          ELSE lastOp.permission = "media"

\* Factors within the limits, and the store in step with the memory.
ZoomInRange ==
    running =>
       /\ \A id \in DOMAIN zoomFactor :
             zoomFactor[id] >= ZoomMin /\ zoomFactor[id] <= ZoomMax
       /\ storeZoomLevels = zoomLevels

ZoomStepApplied ==
    /\ lastOp'.op = "zoom" =>
          LET id == lastOp'.id
              stepped == IF lastOp'.direction = "in"
                         THEN zoomFactor[id] + ZoomStep
                         ELSE zoomFactor[id] - ZoomStep
          IN /\ zoomFactor'[id] = IF stepped > ZoomMax THEN ZoomMax
                                  ELSE IF stepped < ZoomMin THEN ZoomMin
                                  ELSE stepped
             /\ zoomLevels'[id] = zoomFactor'[id]
             /\ DOMAIN zoomLevels' = DOMAIN zoomLevels \cup {id}
             /\ \A k \in DOMAIN zoomLevels \ {id} : zoomLevels'[k] = zoomLevels[k]
             /\ \A k \in DOMAIN zoomFactor \ {id} : zoomFactor'[k] = zoomFactor[k]
    /\ (lastOp'.op = "loaded" /\ lastOp'.id \in DOMAIN zoomLevels
        /\ lastOp'.id \in DOMAIN zoomFactor)
          => zoomFactor'[lastOp'.id] = zoomLevels[lastOp'.id]

\* C35: zoom-changed moves the session's factor by one step, held within
\* the limits; the in-memory entry is the factor applied, the persisted
\* map is the in-memory map, the entries of the other sessions stay, and
\* a finished load sets the saved factor again.
C35_ZoomClampedAndPersisted == []ZoomInRange /\ [][ZoomStepApplied]_vars

C35_Witness ==
    /\ lastOp.op = "loaded"
    /\ lastOp.id = "gmail"
    /\ DOMAIN zoomLevels = { "gmail", "chat" }
    /\ zoomLevels["gmail"] = ZoomMin
    /\ zoomFactor["gmail"] = ZoomMin
    /\ zoomLevels["chat"] = ZoomMax
    /\ storeZoomLevels = zoomLevels

\* C36: the page of every content session, loaded from the session's
\* configured URL, takes the session's id as its sourceId.
C36_SourceIdIsSessionId ==
    (lastOp.op = "ready" /\ lastOp.href = ConfigUrl(lastOp.id))
    => pageSource[lastOp.id] = lastOp.id

\* The steps in which an observer of the page ran its check.
BadgeChecked ==
    /\ lastOp.op \in { "ready", "title" }
    /\ lastOp.id \in DOMAIN observers
    /\ "badge" \in observers[lastOp.id]

FaviconChecked ==
    /\ lastOp.op \in { "ready", "favicon-check" }
    /\ lastOp.id \in DOMAIN observers
    /\ "favicon" \in observers[lastOp.id]

BadgeReflectsTitle ==
    BadgeChecked =>
       /\ pageSent[lastOp.id].badge
             = UpdateBadgeMsg(titleCount(docTitle[lastOp.id]))
       /\ lastOp.op = "ready" =>
             \E k \in 1..Len(out) : out[k] = pageSent[lastOp.id].badge

\* No message of a check repeats the page's previous one on its channel.
NoRepeatedSend ==
    lastOp'.op \in { "title", "favicon-check" } =>
       \A k \in 1..Len(out') :
           /\ out'[k] # pageSent[lastOp'.id].badge
           /\ out'[k] # pageSent[lastOp'.id].favicon

\* The favicon message of a page is the icon link its last check found.
FaviconReflectsEveryCheck ==
    FaviconChecked =>
       /\ pageSent[lastOp.id].favicon.sent
       /\ pageSent[lastOp.id].favicon.faviconUrl = docIcon[lastOp.id]
       /\ lastOp.op = "ready" =>
             \E k \in 1..Len(out) : out[k] = pageSent[lastOp.id].favicon

\* C37 as stated: each observer sends at its first check, never repeats
\* its previous message, and its last message is the value found at its
\* last check.
C37_SendOnEveryChange ==
    /\ [](BadgeReflectsTitle /\ FaviconReflectsEveryCheck)
    /\ [][NoRepeatedSend]_vars

\* The favicon message of a page is the last icon link a check found.
FaviconReflectsLinks ==
    FaviconChecked =>
       /\ docIcon[lastOp.id] # Null =>
             /\ pageSent[lastOp.id].favicon
                   = UpdateFaviconMsg(pageSource[lastOp.id], docIcon[lastOp.id])
             /\ lastOp.op = "ready" =>
                   \E k \in 1..Len(out) : out[k] = pageSent[lastOp.id].favicon
       /\ docIcon[lastOp.id] = Null => out = SeqFilter(out, { pageSent[lastOp.id].badge })

FaviconKeptWithoutLink ==
    (lastOp'.op = "favicon-check" /\ docIcon[lastOp'.id] = Null)
    => pageSent' = pageSent

\* C37, amended: the same, with the favicon observer sending at its first
\* check when the document has an icon link, and its last message being
\* the icon link found at the last check that found one.
C37_SendOnChangeOfPresentValue ==
    /\ [](BadgeReflectsTitle /\ FaviconReflectsLinks)
    /\ [][NoRepeatedSend /\ FaviconKeptWithoutLink]_vars

C37_Witness ==
    /\ lastOp.op = "favicon-check"
    /\ lastOp.id = "gmail"
    /\ out = << UpdateFaviconMsg("gmail", "icon-b") >>
    /\ pageSent["gmail"].badge = UpdateBadgeMsg(1)
    /\ docTitle["gmail"].group = 1

\* The generic notifications among the messages o.
GenericSent(o) ==
    { k \in 1..Len(o) : o[k] = GenericNotification }

\* C38: a trigger of the calendar detector, a playing audio element or a
\* title change alike, sends at most one generic notification, and none
\* when the detector's last one is 5000 ms old or less.
C38_OneNotificationPerWindow ==
    [][(lastOp'.op \in { "title", "play" } /\ lastOp'.id \in DOMAIN lastEmitted)
       => LET prev == lastEmitted[lastOp'.id]
          IN /\ Cardinality(GenericSent(out')) <= 1
             /\ (prev.emitted /\ now' - prev.at <= DEBOUNCE_MS)
                   => GenericSent(out') = {}]_vars

C38_Witness ==
    /\ lastOp.op = "play"
    /\ out = << GenericNotification >>
    /\ lastEmitted["calendar"] = [emitted |-> TRUE, at |-> now]
    /\ now = StartTime + DEBOUNCE_MS + Tick

\* The messages among o that report a notification to the bridge.
Triggered(o) ==
    { k \in 1..Len(o) :
         "channel" \in DOMAIN o[k] /\ o[k].channel = "show-notification" }

Originals(o) ==
    { k \in 1..Len(o) : "native" \in DOMAIN o[k] }

\* C40: the patch may reach a registration any number of times and by any
\* path; one showNotification call on it then reports to the bridge once
\* and runs the registration's own showNotification once.
C40_PatchIsIdempotent ==
    lastOp.op = "show" =>
       /\ Cardinality(Originals(out)) = 1
       /\ lastOp.patched => Cardinality(Triggered(out)) = 1

C40_Witness ==
    /\ lastOp.op = "show"
    /\ lastOp.patched
    /\ Len(out) = 2
    /\ out[1] = TriggerNotification("t1", "", "calendar")
    /\ out[2] = OriginalShow(lastOp.reg, "t1")
    /\ \A reg \in Registrations : registrations["calendar"][reg].patched

\* Call j is followed by another less than WAIT later.
Superseded(j) ==
    j < Len(calls) /\ calls[j + 1].at - calls[j].at < WAIT

\* More than WAIT has passed after call j without another call.
BurstEnded(j) ==
    IF j < Len(calls) THEN calls[j + 1].at - calls[j].at > WAIT
    ELSE now - calls[j].at > WAIT

RunsOf(j) ==
    { k \in 1..Len(runs) : runs[k].at = calls[j].at + WAIT }

\* C39: every run of the wrapped function comes WAIT after a call that no
\* other call followed within WAIT, with that call's arguments; a call
\* that nothing followed for more than WAIT has had exactly one run; a
\* burst of calls has one run in all.
C39_DebounceCollapsesBursts ==
    /\ \A k \in 1..Len(runs) :
          \E j \in 1..Len(calls) :
              /\ ~Superseded(j)
              /\ runs[k] = [at |-> calls[j].at + WAIT, args |-> calls[j].args]
    /\ \A j \in 1..Len(calls) :
          BurstEnded(j) =>
             /\ Cardinality(RunsOf(j)) = 1
             /\ \A k \in RunsOf(j) : runs[k].args = calls[j].args
    /\ Len(runs) <= Cardinality({ j \in 1..Len(calls) : ~Superseded(j) })

C39_Witness ==
    /\ Len(calls) = 3
    /\ Superseded(1)
    /\ calls[1].args # calls[2].args
    /\ BurstEnded(2)
    /\ BurstEnded(3)
    /\ runs = << [at |-> calls[2].at + WAIT, args |-> calls[2].args],
                 [at |-> calls[3].at + WAIT, args |-> calls[3].args] >>
====
